---- MODULE Spec2Model ----
(***************************************************************************)
(* Verification model of the picsou portfolio tracker:                     *)
(*   - the daily reconstruction engine  (src/src/build_saisir.py)          *)
(*   - the incremental price backfill   (src/src/backfill_prices_daily.py) *)
(*   - the sync / upsert layer          (src/tools/sync_excel_saisir.py)   *)
(*   - the ledger import                (src/src/import_ledger_csv.py)     *)
(*   - the price store upserts          (src/src/fetch_prices.py)          *)
(*                                                                         *)
(* Time.  An instant is an integer tick, two ticks per UTC day: tick 2*d   *)
(* is an instant of UTC day d before the Europe/Paris midnight, tick 2*d+1 *)
(* an instant of UTC day d after it (so it belongs to local day d+1).      *)
(* Money and quantities are integers.  A pandas cell is a set: {} is NaN   *)
(* and {v} is the number v.  A SQL cell is the same: {} is NULL.           *)
(***************************************************************************)
EXTENDS Integers, Sequences, FiniteSets, TLC

VARIABLES
    ledger,     \* table transactions: sequence of rows
    prices,     \* table price_snapshot: set of rows, key (ts, symbol)
    now,        \* the clock: current tick
    cfg_coins,  \* the coins build_saisir is called with (COINS_DEFAULT of the deployment)
    imp,        \* import_ledger_csv main(): what the imports did so far
    px_op,      \* price_snapshot: the last upsert call, with the store it found
    frames,     \* what _build_frames returned last
    out,        \* what build_saisir returned last
    bf_pc,      \* backfill main(): "idle", "loop", "done"
    bf_syms,    \* backfill: syms, the sorted symbols of the ledger
    bf_i,       \* backfill: position of the loop in syms
    bf_range,   \* backfill: <<start, end>> of _get_date_range_from_db
    bf_log,     \* backfill: what the run did, in order
    bf_prices0, \* backfill: the price store when the run started
    table,      \* dbo.excel_saisir: exists, columns (name -> type), rows
    sync_pc,    \* sync main(): "idle", "ensure", "upsert", "done", "failed"
    sync_i,     \* sync: position of upsert_rows in df.iterrows()
    sync_runs,  \* sync: runs started so far
    sync_snap,  \* sync: the stores and the day the running run has read
    sync_last,  \* sync: the table when the run started, the run completed just before
    sync_rows0, \* sync: the rows of the table when upsert_rows started
    sync_sweep_failed   \* sync: a statement of cleanup_nulls_numeric failed

(***************************************************************************)
(* Bounds of the model.                                                    *)
(***************************************************************************)
NumDays == 2        \* UTC days 1..NumDays carry transactions and prices
MaxTx == 2          \* rows of the transactions table
MaxPts == 2         \* rows of price_snapshot at the start
BfDays == 3         \* UTC days 1..BfDays of a backfill run
MaxFailedUpserts == 1   \* MERGE statements that fail in one _upsert_many
MaxRuns == 2        \* sync runs in one behaviour
MaxCsvRows == 2     \* data rows of an imported CSV file
MaxImports == 2     \* imports in one behaviour
MaxUpsertCalls == 2 \* upsert calls on the price store in one behaviour
NumCoins == 2       \* how many of the seven configured coins are kept

(***************************************************************************)
(* pandas scalars and series                                               *)
(***************************************************************************)
NaN == {}
Some(v) == {v}
Num(x) == CHOOSE v \in x : TRUE
fillna(x, v) == IF x = NaN THEN Some(v) ELSE x
\* float multiplication and subtraction: NaN is absorbing
Mul(x, y) == IF x = NaN \/ y = NaN THEN NaN ELSE Some(Num(x) * Num(y))
Sub(x, y) == IF x = NaN \/ y = NaN THEN NaN ELSE Some(Num(x) - Num(y))

Max(S) == CHOOSE x \in S : \A y \in S : y <= x
Min(S) == CHOOSE x \in S : \A y \in S : x <= y

RECURSIVE SumOver(_, _)
\* Series.sum(): the sum of f over the index set S, NaN cells skipped
SumOver(f, S) ==
    IF S = {} THEN 0
    ELSE LET i == CHOOSE j \in S : TRUE
         IN  (IF f[i] = NaN THEN 0 ELSE Num(f[i])) + SumOver(f, S \ {i})

RECURSIVE Series(_, _)
\* the series f over the index S, every cell computed once
Series(f, S) ==
    IF S = {} THEN << >>
    ELSE LET d == CHOOSE x \in S : TRUE IN (d :> f[d]) @@ Series(f, S \ {d})

\* Series.cumsum() over a day index
cumsum(s) == Series([d \in DOMAIN s |-> Some(SumOver(s, {e \in DOMAIN s : e <= d}))], DOMAIN s)
\* a variant of ffill that carries nothing forward
ffill_off(s) == s

\* Series.ffill(): carry the last earlier observation of the index forward
ffill(s) ==
    Series([d \in DOMAIN s |->
        IF s[d] # NaN THEN s[d]
        ELSE LET before == {e \in DOMAIN s : e < d /\ s[e] # NaN}
             IN  IF before = {} THEN NaN ELSE s[Max(before)]], DOMAIN s)
\* a variant of bfill that carries nothing backward
bfill_off(s) == s

\* Series.bfill(): carry the first later observation of the index backward
bfill(s) ==
    Series([d \in DOMAIN s |->
        IF s[d] # NaN THEN s[d]
        ELSE LET after == {e \in DOMAIN s : e > d /\ s[e] # NaN}
             IN  IF after = {} THEN NaN ELSE s[Min(after)]], DOMAIN s)

(***************************************************************************)
(* Clock and calendar                                                      *)
(***************************************************************************)
\* datetime.date() of a UTC instant / CONVERT(date, ts)
UtcDay(ts) == ts \div 2
\* dt.tz_convert(PARIS).dt.normalize()
LocalDay(ts) == (ts + 1) \div 2
Ticks == 2..(2 * NumDays + 1)

(***************************************************************************)
(* Symbols                                                                 *)
(***************************************************************************)
AllCoins == <<"btc", "eth", "avax", "dot", "ada", "sol", "xrp">>
COINS_DEFAULT == SubSeq(AllCoins, 1, NumCoins)
CoinSet(coins) == {coins[i] : i \in 1..Len(coins)}

\* SQL LOWER() on the symbols of the model
LOWER(s) ==
    CASE s = "BTC" -> "btc"
      [] s = "ETH" -> "eth"
      [] s = "DOGE" -> "doge"
      [] OTHER -> s

(***************************************************************************)
(* Column labels, as sequences of characters                               *)
(***************************************************************************)
CoinChars(c) ==
    CASE c = "btc" -> <<"b", "t", "c">>
      [] c = "eth" -> <<"e", "t", "h">>
      [] c = "avax" -> <<"a", "v", "a", "x">>
      [] c = "dot" -> <<"d", "o", "t">>
      [] c = "ada" -> <<"a", "d", "a">>
      [] c = "sol" -> <<"s", "o", "l">>
      [] c = "xrp" -> <<"x", "r", "p">>

UpperChar(ch) ==
    CASE ch = "a" -> "A" [] ch = "b" -> "B" [] ch = "c" -> "C" [] ch = "d" -> "D"
      [] ch = "e" -> "E" [] ch = "h" -> "H" [] ch = "l" -> "L" [] ch = "o" -> "O"
      [] ch = "p" -> "P" [] ch = "r" -> "R" [] ch = "s" -> "S" [] ch = "t" -> "T"
      [] ch = "v" -> "V" [] ch = "x" -> "X" [] OTHER -> ch
\* str.upper()
upper(s) == [i \in 1..Len(s) |-> UpperChar(s[i])]

ACHETE == <<"a", "c", "h", "e", "t", "é">>
VALEUR == <<"v", "a", "l", "e", "u", "r">>
CUMUL == <<"c", "u", "m", "u", "l">>
GAIN_PERTE == <<"g", "a", "i", "n", " ", "p", "e", "r", "t", "e">>
TOTAL == <<"t", "o", "t", "a", "l">>
SP == <<" ">>

RECURSIVE Str(_)
\* the string made of the characters of s
Str(s) == IF s = << >> THEN "" ELSE Head(s) \o Str(Tail(s))

\* the labels build_saisir gives the columns (f-strings), by coin
Labels ==
    [c \in {AllCoins[i] : i \in 1..Len(AllCoins)} |->
        [achete |-> CoinChars(c) \o SP \o ACHETE,
         valeur |-> CoinChars(c) \o SP \o VALEUR,
         gain_perte |-> CoinChars(c) \o SP \o GAIN_PERTE,
         achete_cumul |-> CoinChars(c) \o SP \o ACHETE \o SP \o CUMUL,
         valeur_cumul |-> CoinChars(c) \o SP \o VALEUR \o SP \o CUMUL,
         tail_achete |-> ACHETE \o SP \o upper(CoinChars(c)),
         tail_valeur |-> <<"V">> \o Tail(VALEUR) \o SP \o upper(CoinChars(c))]]
TotalLabels ==
    [achete |-> TOTAL \o SP \o ACHETE,
     valeur |-> TOTAL \o SP \o VALEUR,
     gain_perte |-> TOTAL \o SP \o GAIN_PERTE]
LabelStr == [c \in DOMAIN Labels |-> [k \in DOMAIN Labels[c] |-> Str(Labels[c][k])]]
TotalStr == [k \in DOMAIN TotalLabels |-> Str(TotalLabels[k])]

col_achete(c) == LabelStr[c].achete
col_valeur(c) == LabelStr[c].valeur
col_gain_perte(c) == LabelStr[c].gain_perte
col_achete_cumul(c) == LabelStr[c].achete_cumul
col_valeur_cumul(c) == LabelStr[c].valeur_cumul
col_tail_achete(c) == LabelStr[c].tail_achete
col_tail_valeur(c) == LabelStr[c].tail_valeur
col_total_achete == TotalStr.achete
col_total_valeur == TotalStr.valeur
col_total_gain_perte == TotalStr.gain_perte

(***************************************************************************)
(* Daily reconstruction engine: build_saisir.py                            *)
(***************************************************************************)
\* _load_transactions: the ledger rows with their local day, symbols lowered
_load_transactions ==
    [i \in 1..Len(ledger) |->
        [date_local |-> LocalDay(ledger[i].date_utc),
         symbol |-> LOWER(ledger[i].symbol),
         qty |-> ledger[i].qty,
         price_eur |-> ledger[i].price_eur,
         fee_eur |-> ledger[i].fee_eur]]

\* _load_prices: the price points with their local day, symbols lowered
_load_prices ==
    {[symbol |-> LOWER(p.symbol), ts |-> p.ts, price_eur |-> p.price_eur,
      date_local |-> LocalDay(p.ts)] : p \in prices}

\* a variant of _date_range that stops the day before end
_date_range_open(start, end) == start..(end - 1)

\* pd.date_range(start, end, freq="D"): every calendar day from start to end
_date_range(start, end) == start..end

\* a variant of last_per_day that keeps the earliest point of the day
last_per_day_first(pr, c, d) ==
    LET pts == {p \in pr : p.symbol = c /\ p.date_local = d}
    IN  IF pts = {} THEN NaN
        ELSE Some((CHOOSE p \in pts : \A q \in pts : p.ts <= q.ts).price_eur)

\* pr.sort_values([symbol, date_local, ts]).groupby([symbol, date_local]).last()
last_per_day(pr, c, d) ==
    LET pts == {p \in pr : p.symbol = c /\ p.date_local = d}
    IN  IF pts = {} THEN NaN
        ELSE Some((CHOOSE p \in pts : \A q \in pts : q.ts <= p.ts).price_eur)

\* the densified daily price of coin c on the grid
price_series(pr, c, days) ==
    IF pr = {} THEN Series([d \in days |-> NaN], days)
    ELSE bfill(ffill(Series([d \in days |-> last_per_day(pr, c, d)], days)))

\* qty.clip(lower=0)
clip0(q) == IF q < 0 THEN 0 ELSE q

\* a variant of buy_eur_row that keeps the sign of the quantity
buy_eur_row_noclip(t) == t.qty * t.price_eur + t.fee_eur
\* a variant of buy_eur_row that counts the fee of buys only
buy_eur_row_buyfee(t) == IF t.qty > 0 THEN t.qty * t.price_eur + t.fee_eur ELSE 0

\* tx_c["buy_eur"] of one ledger row
buy_eur_row(t) == clip0(t.qty) * t.price_eur + t.fee_eur

RowsOf(tx, c, d) == {i \in 1..Len(tx) : tx[i].symbol = c /\ tx[i].date_local = d}

\* a variant of s_buy without fillna: a day without a row of the coin is NaN
s_buy_nofill(tx, c, days) ==
    Series([d \in days |->
        LET rows == RowsOf(tx, c, d)
        IN  IF rows = {} THEN NaN
            ELSE Some(SumOver([i \in rows |-> Some(buy_eur_row(tx[i]))], rows))], days)

\* tx_c.groupby("date_local")["buy_eur"].sum().reindex(days).fillna(0.0)
s_buy(tx, c, days) ==
    Series([d \in days |->
        LET rows == RowsOf(tx, c, d)
        IN  IF rows = {} THEN fillna(NaN, 0)
            ELSE Some(SumOver([i \in rows |-> Some(buy_eur_row(tx[i]))], rows))], days)

\* tx_c.groupby("date_local")["qty"].sum().reindex(days).fillna(0.0)
s_qty_day(tx, c, days) ==
    Series([d \in days |->
        LET rows == RowsOf(tx, c, d)
        IN  IF rows = {} THEN fillna(NaN, 0)
            ELSE Some(SumOver([i \in rows |-> Some(tx[i].qty)], rows))], days)

\* s_qty: the cumulative held quantity
s_qty(tx, c, days) == cumsum(s_qty_day(tx, c, days))

\* _build_frames(coins): raises on an empty ledger
_build_frames(coins) ==
    LET tx == _load_transactions
        pr == _load_prices
    IN  IF Len(tx) = 0 THEN [raised |-> TRUE]
        ELSE LET start_day == Min({tx[i].date_local : i \in 1..Len(tx)})
                 today == LocalDay(now)
                 days == _date_range(start_day, today)
                 buy == Series([c \in CoinSet(coins) |-> s_buy(tx, c, days)], CoinSet(coins))
             IN  [raised |-> FALSE,
                  days |-> days,
                  buy_eur |-> buy,
                  buy_eur_cum |-> Series([c \in CoinSet(coins) |-> cumsum(buy[c])], CoinSet(coins)),
                  qty_cum |-> Series([c \in CoinSet(coins) |-> s_qty(tx, c, days)], CoinSet(coins)),
                  price |-> Series([c \in CoinSet(coins) |-> price_series(pr, c, days)],
                                   CoinSet(coins))]

\* a variant of val_cell without fillna: a NaN price times 0 is NaN
val_cell_nofill(f, c, d) == Mul(f.qty_cum[c][d], f.price[c][d])

\* val = qty_cum[c].fillna(0.0) * price[c].fillna(0.0); val = val.fillna(0.0)
val_cell(f, c, d) ==
    fillna(Mul(fillna(f.qty_cum[c][d], 0), fillna(f.price[c][d], 0)), 0)

\* the per-coin columns of one day
coin_cells(f, c, d) ==
    LET val == val_cell(f, c, d)
        gain == Sub(val, f.buy_eur_cum[c][d])
    IN  (col_achete(c) :> f.buy_eur[c][d]) @@ (col_valeur(c) :> val)
        @@ (col_gain_perte(c) :> gain)
        @@ (col_achete_cumul(c) :> f.buy_eur_cum[c][d])
        @@ (col_valeur_cumul(c) :> val)

RECURSIVE head_cells(_, _, _)
head_cells(f, coins, d) ==
    IF coins = << >> THEN << >>
    ELSE head_cells(f, Tail(coins), d) @@ coin_cells(f, Head(coins), d)

RECURSIVE tail_cells(_, _)
\* out[f"acheté {u}"] = out[f"{c} acheté cumul"]; out[f"Valeur {u}"] = out[f"{c} valeur cumul"]
tail_cells(row, coins) ==
    IF coins = << >> THEN << >>
    ELSE tail_cells(row, Tail(coins))
         @@ (col_tail_achete(Head(coins)) :> row[col_achete_cumul(Head(coins))])
         @@ (col_tail_valeur(Head(coins)) :> row[col_valeur_cumul(Head(coins))])

\* out[[...]].sum(axis=1) over the listed columns of one row
row_sum(row, cols) == SumOver(row, cols)

\* a variant of total_cells whose total valeur sums the "acheté" block
total_cells_copied(row, coins) ==
    LET ta == Some(row_sum(row, {col_tail_achete(c) : c \in CoinSet(coins)}))
    IN  (col_total_achete :> ta) @@ (col_total_valeur :> ta)
        @@ (col_total_gain_perte :> Sub(ta, ta))

total_cells(row, coins) ==
    LET ta == Some(row_sum(row, {col_tail_achete(c) : c \in CoinSet(coins)}))
        tv == Some(row_sum(row, {col_tail_valeur(c) : c \in CoinSet(coins)}))
    IN  (col_total_achete :> ta) @@ (col_total_valeur :> tv)
        @@ (col_total_gain_perte :> Sub(tv, ta))

RECURSIVE head_cols(_)
head_cols(coins) ==
    IF coins = << >> THEN << >>
    ELSE <<col_achete(Head(coins)), col_valeur(Head(coins)), col_gain_perte(Head(coins)),
           col_achete_cumul(Head(coins)), col_valeur_cumul(Head(coins))>>
         \o head_cols(Tail(coins))

RECURSIVE tail_cols(_)
tail_cols(coins) ==
    IF coins = << >> THEN << >>
    ELSE <<col_tail_achete(Head(coins)), col_tail_valeur(Head(coins))>> \o tail_cols(Tail(coins))

final_cols(coins) ==
    head_cols(coins) \o tail_cols(coins)
    \o <<col_total_achete, col_total_valeur, col_total_gain_perte>>

\* a variant of build_saisir that answers an empty table where _build_frames
\* raised
build_saisir_empty(coins, f) ==
    IF f.raised THEN [status |-> "ok", days |-> {}, cell |-> << >>]
    ELSE [status |-> "ok",
          days |-> f.days,
          cell |-> Series([d \in f.days |->
              LET head == head_cells(f, coins, d)
                  tail == tail_cells(head, coins)
              IN  head @@ tail @@ total_cells(tail, coins)], f.days)]

\* build_saisir(coins) on the frames f of _build_frames(coins): the wide daily
\* table, or the error of _build_frames
build_saisir(coins, f) ==
    IF f.raised THEN [status |-> "raised"]
    ELSE [status |-> "ok",
          days |-> f.days,
          cell |-> Series([d \in f.days |->
              LET head == head_cells(f, coins, d)
                  tail == tail_cells(head, coins)
              IN  head @@ tail @@ total_cells(tail, coins)], f.days)]

(***************************************************************************)
(* Specification of the reconstruction: bounded ledgers and price stores   *)
(***************************************************************************)
\* what a ledger row of the model can carry besides its instant
TxVariants ==
    <<[symbol |-> "btc", qty |-> 1, price_eur |-> 100, fee_eur |-> 1],
      [symbol |-> "btc", qty |-> -1, price_eur |-> 150, fee_eur |-> 1],
      [symbol |-> "btc", qty |-> -1, price_eur |-> 150, fee_eur |-> -1],
      [symbol |-> "ETH", qty |-> 2, price_eur |-> 100, fee_eur |-> 0]>>

TxRow(ts, v) == [date_utc |-> ts] @@ v

\* the k-th row of the bounded row domain, k in 0..NumTxRows-1
NumTxRows == Cardinality(Ticks) * Len(TxVariants)
TxAt(k) == TxRow(2 + (k \div Len(TxVariants)), TxVariants[1 + (k % Len(TxVariants))])

\* ledgers of at most MaxTx rows; the row order of the table is read by no
\* query, so one order per multiset of rows is kept
Ledgers ==
    UNION {{[i \in 1..n |-> TxAt(idx[i])] :
                idx \in {f \in [1..n -> 0..(NumTxRows - 1)] :
                            \A i \in 1..n : \A j \in 1..n : i < j => f[i] <= f[j]}} :
           n \in 0..MaxTx}

\* the price observed at an instant, the same for every symbol
PriceAt(ts) == 50 * ts
\* btc is observed at any instant, eth at the first instant only
PtDomain ==
    {[ts |-> t, symbol |-> "btc", price_eur |-> PriceAt(t)] : t \in Ticks}
    \cup {[ts |-> 2, symbol |-> "eth", price_eur |-> PriceAt(2)]}

\* UNIQUE (ts, symbol) of price_snapshot
UK_price_snapshot_ts_symbol(P) ==
    \A p, q \in P : (p.ts = q.ts /\ p.symbol = q.symbol) => p = q

PriceStores ==
    {P \in SUBSET PtDomain : Cardinality(P) <= MaxPts /\ UK_price_snapshot_ts_symbol(P)}

\* the scenario of the specification: buy 2 @ 100 fee 1 on day 1, sell 1 @ 150
\* fee 1 on day 5, prices 100 on day 1 and 150 on day 5
ScenarioLedger ==
    <<[date_utc |-> 2 * 1, symbol |-> "btc", qty |-> 2, price_eur |-> 100, fee_eur |-> 1],
      [date_utc |-> 2 * 5, symbol |-> "btc", qty |-> -1, price_eur |-> 150, fee_eur |-> 1]>>
ScenarioPrices ==
    {[ts |-> 2 * 1, symbol |-> "btc", price_eur |-> 100],
     [ts |-> 2 * 5, symbol |-> "btc", price_eur |-> 150]}

\* the gap-fill scenario of the specification: transactions on day 1 and day
\* 10 of an 11-day range, prices on day 1 and day 11 only
GapLedger ==
    <<[date_utc |-> 2 * 1, symbol |-> "btc", qty |-> 2, price_eur |-> 100, fee_eur |-> 0],
      [date_utc |-> 2 * 10, symbol |-> "btc", qty |-> 1, price_eur |-> 200, fee_eur |-> 0]>>
GapPrices ==
    {[ts |-> 2 * 1, symbol |-> "btc", price_eur |-> 100],
     [ts |-> 2 * 11, symbol |-> "btc", price_eur |-> 300]}

\* a ledger whose only transaction is dated after the day of the run
FutureLedger ==
    <<[date_utc |-> 2 * 4, symbol |-> "btc", qty |-> 1, price_eur |-> 100, fee_eur |-> 0]>>

stores == <<ledger, prices, now>>
envvars == <<cfg_coins, imp, px_op>>
buildvars == <<frames, out>>
bfvars == <<bf_pc, bf_syms, bf_i, bf_range, bf_log, bf_prices0>>
syncvars ==
    <<table, sync_pc, sync_i, sync_runs, sync_snap, sync_last, sync_rows0, sync_sweep_failed>>
vars ==
    <<ledger, prices, now, cfg_coins, imp, px_op, frames, out, bf_pc, bf_syms, bf_i, bf_range, bf_log, bf_prices0,
      table, sync_pc, sync_i, sync_runs, sync_snap, sync_last, sync_rows0, sync_sweep_failed>>

BuildIdle == frames = [raised |-> FALSE] /\ out = [status |-> "none"]
BackfillIdle ==
    /\ bf_pc = "idle" /\ bf_syms = << >> /\ bf_i = 0 /\ bf_range = << >>
    /\ bf_log = << >> /\ bf_prices0 = {}
NoTable == [exists |-> FALSE, columns |-> << >>, rows |-> << >>]
SyncIdle ==
    /\ sync_pc = "idle" /\ sync_i = 0 /\ sync_runs = 0 /\ sync_snap = << >>
    /\ sync_last = [valid |-> FALSE, table0 |-> NoTable]
    /\ sync_rows0 = << >> /\ sync_sweep_failed = FALSE
\* no import has run; the deployment carries the coins of the source
ImportIdle == imp = [runs |-> 0]
\* no upsert call has been made
UpsertIdle == px_op = [n |-> 0]
EnvIdle == cfg_coins = COINS_DEFAULT /\ ImportIdle /\ UpsertIdle

InitBuild ==
    /\ \/ /\ ledger \in Ledgers
          /\ prices \in PriceStores
          /\ now = 2 * NumDays + 1
       \/ /\ ledger = ScenarioLedger
          /\ prices = ScenarioPrices
          /\ now \in {2 * 5, 2 * 5 + 1}
       \/ /\ ledger = GapLedger
          /\ prices = GapPrices
          /\ now = 2 * 11
       \/ /\ ledger = FutureLedger
          /\ prices = {}
          /\ now = 2 * 2
    /\ BuildIdle
    /\ BackfillIdle
    /\ table = NoTable
    /\ SyncIdle
    /\ EnvIdle

\* one call of build_saisir() on the current stores
BuildSaisir ==
    /\ out.status = "none"
    /\ frames' = _build_frames(cfg_coins)
    /\ out' = build_saisir(cfg_coins, frames')
    /\ UNCHANGED <<envvars, stores, bfvars, syncvars>>

NextBuild == BuildSaisir
SpecBuild == InitBuild /\ [][NextBuild]_vars

(***************************************************************************)
(* Incremental price backfill: backfill_prices_daily.py                    *)
(***************************************************************************)
SYMBOL_TO_ID ==
    [btc |-> "bitcoin", eth |-> "ethereum", sol |-> "solana", ada |-> "cardano",
     avax |-> "avalanche-2", dot |-> "polkadot", xrp |-> "ripple"]

\* time.sleep(1.2) and time.sleep(10), in tenths of a second
PAUSE == 12
BACKOFF_429 == 100

\* sorted() on the symbols of the model
SortedSymbols == <<"ada", "avax", "btc", "doge", "dot", "eth", "sol", "xrp">>
sorted(S) == SelectSeq(SortedSymbols, LAMBDA x : x \in S)

\* _get_symbols_from_db: SELECT DISTINCT LOWER(symbol) FROM transactions, sorted
_get_symbols_from_db == sorted({LOWER(ledger[i].symbol) : i \in 1..Len(ledger)})

\* _get_date_range_from_db: <<MIN(date_utc), now>>
_get_date_range_from_db == <<Min({ledger[i].date_utc : i \in 1..Len(ledger)}), now>>

\* _all_days_utc(start, end): the UTC days start.date()..end.date()
_all_days_utc(start, end) == UtcDay(start)..UtcDay(end)

\* midnight UTC that opens day d
Midnight(d) == 2 * d

\* a variant of _get_existing_days that does not see a point stored at the
\* very start of the range
_get_existing_days_strict(P, symbol, start, end, query_ok) ==
    IF query_ok
    THEN {UtcDay(p.ts) : p \in {q \in P : /\ q.symbol = symbol
                                          /\ q.ts > Midnight(UtcDay(start))
                                          /\ q.ts < Midnight(UtcDay(end) + 1)}}
    ELSE {}

\* a variant of _get_existing_days that reports every day present when the
\* query fails
_get_existing_days_failfull(P, symbol, start, end, query_ok) ==
    IF query_ok
    THEN {UtcDay(p.ts) : p \in {q \in P : /\ q.symbol = symbol
                                          /\ q.ts >= Midnight(UtcDay(start))
                                          /\ q.ts < Midnight(UtcDay(end) + 1)}}
    ELSE _all_days_utc(start, end)

\* _get_existing_days(symbol, start, end) on the store P; {} when the query fails
_get_existing_days(P, symbol, start, end, query_ok) ==
    IF query_ok
    THEN {UtcDay(p.ts) : p \in {q \in P : /\ q.symbol = symbol
                                          /\ q.ts >= Midnight(UtcDay(start))
                                          /\ q.ts < Midnight(UtcDay(end) + 1)}}
    ELSE {}

\* a variant of missing_days, the full-range refetch: every day is missing
missing_days_all(all_days, existing) == all_days

\* missing = sorted(all_days.difference(existing))
missing_days(all_days, existing) == all_days \ existing

\* a variant of from_dt that starts at the last missing day
from_dt_late(missing) == Midnight(Max(missing))
\* from_dt: midnight UTC of the first missing day
from_dt(missing) == Midnight(Min(missing))
\* a variant of to_dt that stops at the midnight opening the last missing day
to_dt_short(missing) == Midnight(Max(missing))
to_dt(missing) == Midnight(Max(missing) + 1)

\* the price the remote source quotes at an instant
RemotePriceAt(ts) == 50 * ts + 5

\* the answers of the remote source to a range request [from, to): a point at
\* the start of each day; two points a day; every day but the last; nothing
RemoteAnswers(from, to) ==
    LET days == UtcDay(from)..(UtcDay(to) - 1)
    IN  {{Midnight(d) : d \in days},
         {Midnight(d) : d \in days} \cup {Midnight(d) + 1 : d \in days},
         {Midnight(d) : d \in days \ {UtcDay(to) - 1}},
         {}}

\* the answer holds a point for each day of the requested range
CoversRange(answer, from, to) ==
    \A d \in UtcDay(from)..(UtcDay(to) - 1) : \E t \in answer : UtcDay(t) = d

\* _fetch_market_chart_daily: one point per UTC day, the last of the day
_fetch_market_chart_daily(answer) ==
    {[ts |-> t, price_eur |-> RemotePriceAt(t)] :
        t \in {u \in answer : \A v \in answer : UtcDay(v) = UtcDay(u) => v <= u}}

\* a variant of filter_missing that keeps every point of the answer
filter_missing_off(pairs, misset) == pairs
\* pairs = [(ts, p) for (ts, p) in pairs if ts.date() in misset]
filter_missing(pairs, misset) == {q \in pairs : UtcDay(q.ts) \in misset}

\* a variant of merge_price that leaves a stored point as it is
merge_price_keep(P, symbol, q) ==
    IF \E p \in P : p.ts = q.ts /\ p.symbol = symbol
    THEN P
    ELSE P \cup {[ts |-> q.ts, symbol |-> symbol, price_eur |-> q.price_eur]}

\* MERGE price_snapshot ... ON target.ts = source.ts AND target.symbol = source.symbol
merge_price(P, symbol, q) ==
    IF \E p \in P : p.ts = q.ts /\ p.symbol = symbol
    THEN {IF p.ts = q.ts /\ p.symbol = symbol THEN [p EXCEPT !.price_eur = q.price_eur] ELSE p :
             p \in P}
    ELSE P \cup {[ts |-> q.ts, symbol |-> symbol, price_eur |-> q.price_eur]}

RECURSIVE _upsert_many(_, _, _, _)
\* _upsert_many(symbol, rows) on the store P; the rows in failed raise and are skipped
_upsert_many(P, symbol, rows, failed) ==
    IF rows = {} THEN P
    ELSE LET q == CHOOSE r \in rows : \A r2 \in rows : r.ts <= r2.ts
             P1 == IF q \in failed THEN P ELSE merge_price(P, symbol, q)
         IN  _upsert_many(P1, symbol, rows \ {q}, failed)

\* the log of the upserts of one _upsert_many, in time order
RECURSIVE UpsertLog(_, _, _)
UpsertLog(symbol, rows, failed) ==
    IF rows = {} THEN << >>
    ELSE LET q == CHOOSE r \in rows : \A r2 \in rows : r.ts <= r2.ts
         IN  <<[ev |-> "upsert", sym |-> symbol, ts |-> q.ts, ok |-> q \notin failed]>>
             \o UpsertLog(symbol, rows \ {q}, failed)

\* main(): the symbols and the range are read, the loop starts
BackfillStart ==
    /\ bf_pc = "idle"
    /\ LET syms == _get_symbols_from_db
       IN  IF syms = << >>
           THEN /\ bf_pc' = "done"
                /\ UNCHANGED <<envvars, bf_syms, bf_i, bf_range>>
           ELSE /\ bf_pc' = "loop"
                /\ bf_syms' = syms
                /\ bf_i' = 1
                /\ bf_range' = _get_date_range_from_db
    /\ bf_log' = << >>
    /\ bf_prices0' = prices
    /\ UNCHANGED <<envvars, stores, buildvars, syncvars>>

\* a variant of Mapped that finds an identifier for every symbol
MappedAny(s) == TRUE

InLoop == bf_pc = "loop" /\ bf_i <= Len(bf_syms)
Sym == bf_syms[bf_i]
Mapped(s) == s \in DOMAIN SYMBOL_TO_ID
AllDays == _all_days_utc(bf_range[1], bf_range[2])
Missing(query_ok) ==
    missing_days(AllDays, _get_existing_days(prices, Sym, bf_range[1], bf_range[2], query_ok))
Visit(query_ok) ==
    <<[ev |-> "visit", sym |-> Sym], [ev |-> "query", sym |-> Sym, ok |-> query_ok]>>
Request(missing) ==
    <<[ev |-> "request", sym |-> Sym, from |-> from_dt(missing), to |-> to_dt(missing)]>>
Response(status, full) ==
    <<[ev |-> "response", sym |-> Sym, status |-> status, full |-> full]>>
Sleep(secs) == <<[ev |-> "sleep", secs |-> secs]>>

\* a variant of next_after_error: the error leaves the loop, the run stops
next_after_error_abort(i) == [pc |-> "aborted", i |-> i]

\* what the loop does after a failed remote request: continue
next_after_error(i) == [pc |-> "loop", i |-> i + 1]

\* cid = SYMBOL_TO_ID.get(s); if not cid: continue
StepUnmapped ==
    /\ InLoop /\ ~Mapped(Sym)
    /\ bf_i' = bf_i + 1
    /\ bf_log' = bf_log \o <<[ev |-> "visit", sym |-> Sym]>>
    /\ UNCHANGED <<envvars, bf_pc, bf_syms, bf_range, bf_prices0, stores, buildvars, syncvars>>

\* if not missing: continue
StepComplete ==
    /\ InLoop /\ Mapped(Sym)
    /\ \E query_ok \in BOOLEAN :
        /\ Missing(query_ok) = {}
        /\ bf_log' = bf_log \o Visit(query_ok)
    /\ bf_i' = bf_i + 1
    /\ UNCHANGED <<envvars, bf_pc, bf_syms, bf_range, bf_prices0, stores, buildvars, syncvars>>

\* the request succeeds: filter, upsert, time.sleep(1.2)
StepFetched ==
    /\ InLoop /\ Mapped(Sym)
    /\ \E query_ok \in BOOLEAN :
        LET missing == Missing(query_ok)
        IN  /\ missing # {}
            /\ \E answer \in RemoteAnswers(from_dt(missing), to_dt(missing)) :
                LET pairs == filter_missing(_fetch_market_chart_daily(answer), missing)
                IN  \E failed \in {F \in SUBSET pairs : Cardinality(F) <= MaxFailedUpserts} :
                        /\ prices' = _upsert_many(prices, Sym, pairs, failed)
                        /\ bf_log' = bf_log \o Visit(query_ok) \o Request(missing)
                              \o Response("ok", CoversRange(answer, from_dt(missing), to_dt(missing)))
                              \o UpsertLog(Sym, pairs, failed) \o Sleep(PAUSE)
    /\ bf_i' = bf_i + 1
    /\ UNCHANGED <<envvars, bf_pc, bf_syms, bf_range, bf_prices0, ledger, now, buildvars, syncvars>>

\* except requests.HTTPError with status 429: time.sleep(10); continue
StepRateLimited ==
    /\ InLoop /\ Mapped(Sym)
    /\ \E query_ok \in BOOLEAN :
        LET missing == Missing(query_ok)
        IN  /\ missing # {}
            /\ bf_log' = bf_log \o Visit(query_ok) \o Request(missing)
                  \o Response("429", FALSE) \o Sleep(BACKOFF_429)
    /\ bf_pc' = next_after_error(bf_i).pc
    /\ bf_i' = next_after_error(bf_i).i
    /\ UNCHANGED <<envvars, bf_syms, bf_range, bf_prices0, stores, buildvars, syncvars>>

\* except requests.HTTPError with another status: continue
StepHttpError ==
    /\ InLoop /\ Mapped(Sym)
    /\ \E query_ok \in BOOLEAN :
        LET missing == Missing(query_ok)
        IN  /\ missing # {}
            /\ bf_log' = bf_log \o Visit(query_ok) \o Request(missing) \o Response("http", FALSE)
    /\ bf_pc' = next_after_error(bf_i).pc
    /\ bf_i' = next_after_error(bf_i).i
    /\ UNCHANGED <<envvars, bf_syms, bf_range, bf_prices0, stores, buildvars, syncvars>>

\* a variant of StepException that undoes the upserts of the run so far
StepExceptionRollback ==
    /\ InLoop /\ Mapped(Sym)
    /\ \E query_ok \in BOOLEAN :
        LET missing == Missing(query_ok)
        IN  /\ missing # {}
            /\ bf_log' = bf_log \o Visit(query_ok) \o Request(missing) \o Response("exception", FALSE)
    /\ bf_pc' = next_after_error(bf_i).pc
    /\ bf_i' = next_after_error(bf_i).i
    /\ prices' = bf_prices0
    /\ UNCHANGED <<envvars, bf_syms, bf_range, bf_prices0, ledger, now, buildvars, syncvars>>

\* except Exception (timeout, connection, decoding): continue
StepException ==
    /\ InLoop /\ Mapped(Sym)
    /\ \E query_ok \in BOOLEAN :
        LET missing == Missing(query_ok)
        IN  /\ missing # {}
            /\ bf_log' = bf_log \o Visit(query_ok) \o Request(missing) \o Response("exception", FALSE)
    /\ bf_pc' = next_after_error(bf_i).pc
    /\ bf_i' = next_after_error(bf_i).i
    /\ UNCHANGED <<envvars, bf_syms, bf_range, bf_prices0, stores, buildvars, syncvars>>

\* the loop is over: "Backfill quotidien terminé."
BackfillEnd ==
    /\ bf_pc = "loop" /\ bf_i = Len(bf_syms) + 1
    /\ bf_pc' = "done"
    /\ UNCHANGED <<envvars, bf_syms, bf_i, bf_range, bf_log, bf_prices0, stores, buildvars, syncvars>>

\* the ledgers of the backfill runs: one row per symbol, all at one instant
\* late in a UTC day (the local day is the next one)
BfTicks == {Midnight(d) + 1 : d \in 1..BfDays}
BfSymbolSets == {{"btc"}, {"doge"}, {"btc", "doge", "ETH"}}
BfLedger(S, t) ==
    LET syms == SelectSeq(<<"btc", "doge", "ETH">>, LAMBDA x : x \in S)
    IN  [i \in 1..Len(syms) |->
            [date_utc |-> t, symbol |-> syms[i], qty |-> 1, price_eur |-> 100, fee_eur |-> 0]]
\* and one ledger whose only transaction is dated after the day of the run
BfLedgers ==
    {<< >>} \cup {BfLedger(S, t) : S \in BfSymbolSets, t \in BfTicks}
    \cup {BfLedger({"btc"}, Midnight(BfDays + 1) + 1)}
\* the stored points: one btc point a day, early or late in turn, one eth point
BfPtDomain ==
    {[ts |-> Midnight(d) + (d % 2), symbol |-> "btc", price_eur |-> PriceAt(Midnight(d) + (d % 2))] :
        d \in 1..BfDays}
    \cup {[ts |-> Midnight(BfDays), symbol |-> "eth", price_eur |-> PriceAt(Midnight(BfDays))]}
BfPriceStores ==
    {P \in SUBSET BfPtDomain : Cardinality(P) <= MaxPts /\ UK_price_snapshot_ts_symbol(P)}

InitBackfill ==
    /\ ledger \in BfLedgers
    /\ prices \in BfPriceStores
    /\ now = 2 * BfDays + 1
    /\ BuildIdle
    /\ BackfillIdle
    /\ table = NoTable
    /\ SyncIdle
    /\ EnvIdle

NextBackfill ==
    \/ BackfillStart
    \/ StepUnmapped
    \/ StepComplete
    \/ StepFetched
    \/ StepRateLimited
    \/ StepHttpError
    \/ StepException
    \/ BackfillEnd
SpecBackfill == InitBackfill /\ [][NextBackfill]_vars

\* what a log says of its run: every answer was ok and held a point for each
\* requested day, every upsert went through, how many requests and upserts
RunSummary(log) ==
    [answered |-> \A k \in DOMAIN log :
                     log[k].ev = "response" => log[k].status = "ok" /\ log[k].full,
     upserted |-> \A k \in DOMAIN log : log[k].ev = "upsert" => log[k].ok,
     requests |-> Cardinality({k \in DOMAIN log : log[k].ev = "request"}),
     upserts |-> Cardinality({k \in DOMAIN log : log[k].ev = "upsert"})]

\* main() is started again once it has ended, on the same ledger and at the
\* same instant; the log starts over with the summary of the first run
BackfillAgain ==
    /\ bf_pc = "done" /\ bf_syms # << >>
    /\ bf_log = << >> \/ bf_log[1].ev # "run"
    /\ bf_pc' = "loop"
    /\ bf_syms' = _get_symbols_from_db
    /\ bf_i' = 1
    /\ bf_range' = _get_date_range_from_db
    /\ bf_log' = <<[ev |-> "run", first |-> RunSummary(bf_log)]>>
    /\ bf_prices0' = prices
    /\ UNCHANGED <<envvars, stores, buildvars, syncvars>>

\* the ledgers of the runs that are repeated: btc alone, or with a symbol
\* that has no provider id
BfTwiceLedgers == {BfLedger(S, t) : S \in {{"btc"}, {"btc", "doge"}}, t \in BfTicks}
InitBackfillTwice ==
    /\ ledger \in BfTwiceLedgers
    /\ prices \in BfPriceStores
    /\ now = 2 * BfDays + 1
    /\ BuildIdle
    /\ BackfillIdle
    /\ table = NoTable
    /\ SyncIdle
    /\ EnvIdle

NextBackfillTwice ==
    \/ NextBackfill
    \/ BackfillAgain
\* two backfill runs in a row
SpecBackfillTwice == InitBackfillTwice /\ [][NextBackfillTwice]_vars

\* fetch_prices._upsert(symbol, ts, price_eur): one MERGE; the store is left
\* as it was when the statement raises
_upsert(P, symbol, ts, price_eur, ok) ==
    IF ok THEN merge_price(P, symbol, [ts |-> ts, price_eur |-> price_eur]) ELSE P

\* the quotes a call can carry for an instant: the stored one or the remote one
Quotes(ts) == {PriceAt(ts), RemotePriceAt(ts)}
\* the row lists a call of _upsert_many can carry: at most one row per
\* instant, as _fetch_market_chart_daily returns them
UpsertRows ==
    {R \in SUBSET {[ts |-> t, price_eur |-> v] : t \in {now - 1, now}, v \in Quotes(now - 1) \cup Quotes(now)} :
        /\ \A r \in R : r.price_eur \in Quotes(r.ts)
        /\ \A r1, r2 \in R : r1.ts = r2.ts => r1 = r2}

\* backfill calls _upsert_many(symbol, rows)
UpsertManyCall ==
    /\ px_op.n < MaxUpsertCalls
    /\ \E symbol \in {"btc", "eth"} : \E rows \in UpsertRows :
        \E failed \in {F \in SUBSET rows : Cardinality(F) <= MaxFailedUpserts} :
            /\ prices' = _upsert_many(prices, symbol, rows, failed)
            /\ px_op' = [n |-> px_op.n + 1, call |-> "_upsert_many", symbol |-> symbol,
                          applied |-> rows \ failed, before |-> prices]
    /\ UNCHANGED <<ledger, now, cfg_coins, imp, buildvars, bfvars, syncvars>>

\* the current-price fetch calls _upsert(symbol, now, price)
UpsertCall ==
    /\ px_op.n < MaxUpsertCalls
    /\ \E symbol \in {"btc", "eth"} : \E v \in Quotes(now) : \E ok \in BOOLEAN :
        /\ prices' = _upsert(prices, symbol, now, v, ok)
        /\ px_op' = [n |-> px_op.n + 1, call |-> "_upsert", symbol |-> symbol,
                      applied |-> IF ok THEN {[ts |-> now, price_eur |-> v]} ELSE {},
                      before |-> prices]
    /\ UNCHANGED <<ledger, now, cfg_coins, imp, buildvars, bfvars, syncvars>>

InitUpsert ==
    /\ ledger = << >>
    /\ prices \in {P \in PriceStores : \A p \in P : p.ts = 2 * NumDays + 1}
    /\ now = 2 * NumDays + 1
    /\ BuildIdle
    /\ BackfillIdle
    /\ table = NoTable
    /\ SyncIdle
    /\ EnvIdle

NextUpsert ==
    \/ UpsertManyCall
    \/ UpsertCall
\* any sequence of upsert calls on the price store
SpecUpsert == InitUpsert /\ [][NextUpsert]_vars

\* one thread runs main() to its end: every sleep returns and every remote
\* call answers or times out (timeout=30), so an enabled step is taken
SpecBackfillFair == SpecBackfill /\ WF_vars(NextBackfill)

(***************************************************************************)
(* Sync layer: tools/sync_excel_saisir.py                                  *)
(***************************************************************************)
NULL == {}
DATE == <<"d", "a", "t", "e">>

\* list(df.columns): "date" first, then final_cols
original_cols(coins) == <<Str(DATE)>> \o final_cols(coins)

LowerChar(ch) ==
    CASE ch = "A" -> "a" [] ch = "B" -> "b" [] ch = "C" -> "c" [] ch = "D" -> "d"
      [] ch = "E" -> "e" [] ch = "H" -> "h" [] ch = "L" -> "l" [] ch = "O" -> "o"
      [] ch = "P" -> "p" [] ch = "R" -> "r" [] ch = "S" -> "s" [] ch = "T" -> "t"
      [] ch = "V" -> "v" [] ch = "X" -> "x" [] OTHER -> ch
\* str.lower()
lower(s) == [i \in 1..Len(s) |-> LowerChar(s[i])]

RECURSIVE lstrip(_, _)
lstrip(s, chars) ==
    IF s # << >> /\ Head(s) \in chars THEN lstrip(Tail(s), chars) ELSE s
RECURSIVE rstrip(_, _)
rstrip(s, chars) ==
    IF s # << >> /\ s[Len(s)] \in chars THEN rstrip(SubSeq(s, 1, Len(s) - 1), chars) ELSE s
\* str.strip() and str.strip("_")
strip(s, chars) == rstrip(lstrip(s, chars), chars)

Whitespace == {" ", "\t", "\n"}
Separators == Whitespace \cup {"-", "/"}
Digits == {"0", "1", "2", "3", "4", "5", "6", "7", "8", "9"}
WordChars ==
    {"a", "b", "c", "d", "e", "f", "g", "h", "i", "j", "k", "l", "m", "n", "o", "p", "q",
     "r", "s", "t", "u", "v", "w", "x", "y", "z", "_"} \cup Digits

\* the replacements dict of normalize_col; its ligature entry (oe) is left
\* out, no label holds the character
replacements(ch) ==
    CASE ch = "é" -> <<"e">> [] ch = "è" -> <<"e">> [] ch = "ê" -> <<"e">>
      [] ch = "à" -> <<"a">> [] ch = "ù" -> <<"u">> [] ch = "ç" -> <<"c">>
      [] OTHER -> <<ch>>
RECURSIVE replace_accents(_)
replace_accents(s) ==
    IF s = << >> THEN << >> ELSE replacements(Head(s)) \o replace_accents(Tail(s))

RECURSIVE replace_avx(_)
\* s.replace("avx", "avax")
replace_avx(s) ==
    IF Len(s) < 3 THEN s
    ELSE IF SubSeq(s, 1, 3) = <<"a", "v", "x">>
         THEN <<"a", "v", "a", "x">> \o replace_avx(SubSeq(s, 4, Len(s)))
         ELSE <<Head(s)>> \o replace_avx(Tail(s))

RECURSIVE sub_separators(_)
\* re.sub(r"[\s\-/]+", "_", s)
sub_separators(s) ==
    IF s = << >> THEN << >>
    ELSE IF Head(s) \in Separators
         THEN <<"_">> \o sub_separators(lstrip(s, Separators))
         ELSE <<Head(s)>> \o sub_separators(Tail(s))

\* re.sub(r"[^a-z0-9_]", "", s)
sub_non_word(s) == SelectSeq(s, LAMBDA ch : ch \in WordChars)

RECURSIVE sub_underscores(_)
\* re.sub(r"_+", "_", s)
sub_underscores(s) ==
    IF s = << >> THEN << >>
    ELSE IF Head(s) = "_"
         THEN <<"_">> \o sub_underscores(lstrip(s, {"_"}))
         ELSE <<Head(s)>> \o sub_underscores(Tail(s))

\* normalize_col(name), on the characters of the name
normalize_col(name) ==
    LET s1 == replace_avx(replace_accents(lower(strip(name, Whitespace))))
        s2 == strip(sub_underscores(sub_non_word(sub_separators(s1))), {"_"})
        s3 == IF s2 = << >> THEN <<"c", "o", "l">> ELSE s2
    IN  IF s3[1] \in Digits THEN <<"c", "_">> \o s3 ELSE s3

\* the characters of every label a DataFrame of the model can carry
LabelKinds ==
    {"achete", "valeur", "gain_perte", "achete_cumul", "valeur_cumul", "tail_achete",
     "tail_valeur"}
LabelChars ==
    {DATE} \cup UNION {{Labels[c][k] : k \in LabelKinds} : c \in DOMAIN Labels}
    \cup {TotalLabels[k] : k \in DOMAIN TotalLabels}
CharsOf(label) == CHOOSE l \in LabelChars : Str(l) = label
LabelSet == {Str(l) : l \in LabelChars}

\* orig -> normalize_col(orig) and orig -> orig.lower(), on label strings
NormOf == Series([o \in LabelSet |-> Str(normalize_col(CharsOf(o)))], LabelSet)
LowerOf == Series([o \in LabelSet |-> Str(lower(CharsOf(o)))], LabelSet)

Range(seq) == {seq[i] : i \in 1..Len(seq)}
\* orig.lower() == "date"
is_date(orig) == LowerOf[orig] = "date"
\* the columns of original_cols other than the date
value_cols(cols) == {o \in Range(cols) : ~is_date(o)}

\* norm_map = {orig: normalize_col(orig) for orig in original_cols}
norm_map(cols) == [o \in Range(cols) |-> NormOf[o]]

\* float(v) succeeds on every number of the model
is_float(v) == v \in Int

\* infer_types(df): the date column, numeric columns, text columns
infer_types(df, cols) ==
    [o \in Range(cols) |->
        IF is_date(o) THEN "DATE"
        ELSE IF \A d \in df.days : df.cell[d][o] = NaN \/ is_float(Num(df.cell[d][o]))
             THEN "DECIMAL(20,2)"
             ELSE "NVARCHAR(255)"]

\* a variant of ensure_table_and_view that drops every column the run does
\* not expect, the stray "index" column or any other
ensure_drop_unexpected(T, df, cols) ==
    LET expected == {"date"} \cup {NormOf[o] : o \in value_cols(cols)}
        types == infer_types(df, cols)
        typeof(c) == IF c = "date" THEN "DATE"
                     ELSE types[CHOOSE o \in value_cols(cols) : NormOf[o] = c]
    IN  [exists |-> TRUE,
         columns |-> [c \in expected |->
                        IF c \in DOMAIN T.columns THEN T.columns[c] ELSE typeof(c)],
         rows |-> [i \in DOMAIN T.rows |->
                     [T.rows[i] EXCEPT !.cell =
                         [c \in expected \ {"date"} |->
                             IF c \in DOMAIN T.columns THEN @[c] ELSE NULL]]]]

\* ensure_table_and_view on the table T: create if absent, add the missing
\* columns as NULLable, drop a stray "index" column
ensure_table_and_view(T, df, cols) ==
    LET nm == norm_map(cols)
        types == infer_types(df, cols)
        T1 == IF T.exists THEN T
              ELSE [exists |-> TRUE, columns |-> ("date" :> "DATE"), rows |-> << >>]
        added == {o \in value_cols(cols) : nm[o] \notin DOMAIN T1.columns}
        newcols == [c \in {nm[o] : o \in added} |->
                       types[CHOOSE o \in added : nm[o] = c]]
        T2 == [exists |-> TRUE,
               columns |-> T1.columns @@ newcols,
               rows |-> [i \in DOMAIN T1.rows |->
                           [T1.rows[i] EXCEPT !.cell = @ @@ [c \in DOMAIN newcols |-> NULL]]]]
        expected_norm_cols == {"date"} \cup {nm[o] : o \in value_cols(cols)}
        keep == DOMAIN T2.columns \ {"index"}
    IN  IF "index" \in DOMAIN T2.columns /\ "index" \notin expected_norm_cols
        THEN [exists |-> TRUE,
              columns |-> [c \in keep |-> T2.columns[c]],
              rows |-> [i \in DOMAIN T2.rows |->
                          [T2.rows[i] EXCEPT !.cell = [c \in keep \ {"date"} |-> @[c]]]]]
        ELSE T2

\* _to_db(col_name, v): NaN/None becomes 0 in a DECIMAL column, NULL elsewhere
_to_db(types, col_name, v) ==
    IF v = NaN
    THEN (IF types[col_name] = "DECIMAL(20,2)" THEN Some(0) ELSE NULL)
    ELSE v

\* update_vals of one DataFrame row, by normalised column
update_vals(df, cols, d) ==
    LET nm == norm_map(cols)
        types == infer_types(df, cols)
    IN  [c \in {nm[o] : o \in value_cols(cols)} |->
            LET o == CHOOSE x \in value_cols(cols) : nm[x] = c
            IN  _to_db(types, o, df.cell[d][o])]

\* the row MERGE inserts: the listed columns, NULL in every other column
inserted_row(T, date_val, vals) ==
    [date |-> date_val,
     cell |-> [c \in DOMAIN T.columns \ {"date"} |->
                  IF c \in DOMAIN vals THEN vals[c] ELSE NULL]]

\* a plain INSERT where the statement is a MERGE
merge_row_insert_only(T, date_val, vals) ==
    [T EXCEPT !.rows = Append(@, inserted_row(T, date_val, vals))]

\* a MERGE that lacks its WHEN MATCHED clause
merge_row_no_update(T, date_val, vals) ==
    IF \E i \in DOMAIN T.rows : T.rows[i].date = date_val THEN T
    ELSE [T EXCEPT !.rows = Append(@, inserted_row(T, date_val, vals))]

\* a MERGE with a WHEN NOT MATCHED BY SOURCE THEN DELETE clause: the rows of
\* the other days go
merge_row_delete_unmatched(T, date_val, vals) ==
    IF \E i \in DOMAIN T.rows : T.rows[i].date = date_val
    THEN [T EXCEPT !.rows =
            [i \in DOMAIN SelectSeq(@, LAMBDA r : r.date = date_val) |->
                LET r == SelectSeq(@, LAMBDA x : x.date = date_val)[i]
                IN  [r EXCEPT !.cell = [c \in DOMAIN @ |->
                                           IF c \in DOMAIN vals THEN vals[c] ELSE @[c]]]]]
    ELSE [T EXCEPT !.rows = <<inserted_row(T, date_val, vals)>>]

\* MERGE ... ON (TARGET.[date] = SOURCE.[date]) WHEN MATCHED THEN UPDATE SET
\* ... WHEN NOT MATCHED THEN INSERT ...; the rows of the table in heap order
merge_row(T, date_val, vals) ==
    IF \E i \in DOMAIN T.rows : T.rows[i].date = date_val
    THEN [T EXCEPT !.rows =
            [i \in DOMAIN @ |->
                IF @[i].date = date_val
                THEN [@[i] EXCEPT !.cell = [c \in DOMAIN @ |->
                                               IF c \in DOMAIN vals THEN vals[c] ELSE @[c]]]
                ELSE @[i]]]
    ELSE [T EXCEPT !.rows = Append(@, inserted_row(T, date_val, vals))]

\* cleanup_nulls_numeric: UPDATE ... SET [col] = 0 WHERE [col] IS NULL for
\* each DECIMAL column of the DataFrame; the statements in failing raise
cleanup_nulls_numeric(T, df, cols, failing) ==
    LET types == infer_types(df, cols)
        num_cols == {o \in Range(cols) : types[o] = "DECIMAL(20,2)"}
        swept == {NormOf[o] : o \in num_cols} \ failing
    IN  [T EXCEPT !.rows =
            [i \in DOMAIN @ |->
                [@[i] EXCEPT !.cell = [c \in DOMAIN @ |->
                                          IF c \in swept /\ @[c] = NULL THEN Some(0)
                                          ELSE @[c]]]]]

\* original_cols of the run: the columns of the DataFrame built for the coins
Cols == original_cols(cfg_coins)
\* the day of the i-th row of df.iterrows()
DayAt(df, i) == Min(df.days) + i - 1
Resting == sync_pc \in {"idle", "done", "failed"}

\* main(): df = load_db_dataframe(); an empty ledger makes build_saisir raise
SyncLoad ==
    /\ Resting /\ sync_runs < MaxRuns
    /\ frames' = _build_frames(cfg_coins)
    /\ out' = build_saisir(cfg_coins, frames')
    /\ sync_pc' = IF out'.status = "raised" THEN "failed" ELSE "ensure"
    /\ sync_runs' = sync_runs + 1
    /\ sync_snap' = <<ledger, prices, LocalDay(now), cfg_coins>>
    /\ sync_last' = IF sync_pc = "done"
                    THEN [valid |-> TRUE, table0 |-> table, snap |-> sync_snap, table |-> table,
                          sweep_failed |-> sync_sweep_failed]
                    ELSE [valid |-> FALSE, table0 |-> table]
    /\ sync_sweep_failed' = FALSE
    /\ sync_i' = 0
    /\ UNCHANGED <<envvars, table, sync_rows0, stores, bfvars>>

\* ensure_table_and_view(df.head(2000), original_cols)
SyncEnsure ==
    /\ sync_pc = "ensure"
    /\ table' = ensure_table_and_view(table, out, Cols)
    /\ sync_rows0' = table'.rows
    /\ sync_pc' = "upsert"
    /\ sync_i' = 1
    /\ UNCHANGED <<envvars, sync_runs, sync_snap, sync_last, sync_sweep_failed, stores, buildvars, bfvars>>

\* upsert_rows: the MERGE of one row of df.iterrows()
SyncUpsertRow ==
    /\ sync_pc = "upsert" /\ sync_i <= Cardinality(out.days)
    /\ table' = merge_row(table, DayAt(out, sync_i), update_vals(out, Cols, DayAt(out, sync_i)))
    /\ sync_i' = sync_i + 1
    /\ UNCHANGED <<envvars, sync_pc, sync_runs, sync_snap, sync_last, sync_rows0, sync_sweep_failed,
                   stores, buildvars, bfvars>>

\* a variant of SyncMergeFails where main() still runs the null sweep before
\* it stops
SyncMergeFailsSwept ==
    /\ sync_pc = "upsert" /\ sync_i = Cardinality(out.days)
    /\ sync_pc' = "failed"
    /\ table' = [table EXCEPT !.rows =
                    [i \in DOMAIN @ |->
                        [@[i] EXCEPT !.cell = [c \in DOMAIN @ |->
                                                  IF @[c] = NULL THEN Some(0) ELSE @[c]]]]]
    /\ UNCHANGED <<envvars, sync_i, sync_runs, sync_snap, sync_last, sync_rows0,
                   sync_sweep_failed, stores, buildvars, bfvars>>

\* upsert_rows: the MERGE of the last row (today) raises, the error is logged
\* and raised again
SyncMergeFails ==
    /\ sync_pc = "upsert" /\ sync_i = Cardinality(out.days)
    /\ sync_pc' = "failed"
    /\ UNCHANGED <<envvars, table, sync_i, sync_runs, sync_snap, sync_last, sync_rows0,
                   sync_sweep_failed, stores, buildvars, bfvars>>

\* upsert_rows: the MERGE of a row before the last raises, the error is
\* logged and raised again
SyncMergeFailsEarly ==
    /\ sync_pc = "upsert" /\ sync_i < Cardinality(out.days)
    /\ sync_pc' = "failed"
    /\ UNCHANGED <<envvars, table, sync_i, sync_runs, sync_snap, sync_last, sync_rows0,
                   sync_sweep_failed, stores, buildvars, bfvars>>

\* the columns of the table that hold a NULL
HoldsNull(T) ==
    {c \in DOMAIN T.columns \ {"date"} : \E i \in DOMAIN T.rows : T.rows[i].cell[c] = NULL}

\* cleanup_nulls_numeric(df, original_cols); at most one statement fails, and
\* a failing statement on a column without NULL leaves what a passing one leaves
SyncCleanup ==
    /\ sync_pc = "upsert" /\ sync_i > Cardinality(out.days)
    /\ \E failing \in {{}} \cup {{NormOf[o]} : o \in {x \in value_cols(Cols) :
                                                        NormOf[x] \in HoldsNull(table)}} :
        /\ table' = cleanup_nulls_numeric(table, out, Cols, failing)
        /\ sync_sweep_failed' = (failing # {})
    /\ sync_pc' = "done"
    /\ UNCHANGED <<envvars, sync_i, sync_runs, sync_snap, sync_last, sync_rows0, stores, buildvars, bfvars>>

\* the rows other programs add to the ledger between two runs
SyncTxRows == <<TxRow(2, TxVariants[1]), TxRow(3, TxVariants[4])>>
RowIdx(row) == CHOOSE k \in 1..Len(SyncTxRows) : SyncTxRows[k] = row
SyncLedgers ==
    UNION {{[i \in 1..n |-> SyncTxRows[idx[i]]] :
                idx \in {f \in [1..n -> 1..Len(SyncTxRows)] :
                            \A i \in 1..n : \A j \in 1..n : i < j => f[i] <= f[j]}} :
           n \in 0..MaxTx}
SyncPts == {p \in PtDomain : p.symbol = "btc" /\ p.ts = 2 * NumDays + 1}

\* import_ledger_csv.bulk_insert: one more row in transactions
LedgerInsert ==
    /\ Resting /\ sync_runs < MaxRuns /\ Len(ledger) < MaxTx
    /\ \E k \in 1..Len(SyncTxRows) :
        LET before == SelectSeq(ledger, LAMBDA r : RowIdx(r) <= k)
            after == SelectSeq(ledger, LAMBDA r : RowIdx(r) > k)
        IN  ledger' = before \o <<SyncTxRows[k]>> \o after
    /\ UNCHANGED <<envvars, prices, now, buildvars, bfvars, syncvars>>

\* a price fetch stores one more point in price_snapshot
PriceInsert ==
    /\ Resting /\ sync_runs < MaxRuns
    /\ \E p \in SyncPts \ prices : prices' = prices \cup {p}
    /\ UNCHANGED <<envvars, ledger, now, buildvars, bfvars, syncvars>>

\* time passes between two runs
ClockTick ==
    /\ Resting /\ sync_runs < MaxRuns /\ now < 2 * NumDays + 3
    /\ now' = now + 1
    /\ UNCHANGED <<envvars, ledger, prices, buildvars, bfvars, syncvars>>

\* a table left by an earlier version of the tool: a stray "index" column
\* and one row with a NULL
LegacyTable ==
    [exists |-> TRUE,
     columns |-> ("date" :> "DATE") @@ ("index" :> "BIGINT") @@ ("btc_achete" :> "DECIMAL(20,2)"),
     rows |-> <<[date |-> 1, cell |-> ("index" :> Some(0)) @@ ("btc_achete" :> NULL)]>>]

InitSync ==
    /\ ledger \in SyncLedgers
    /\ prices \in SUBSET SyncPts
    /\ now = 2 * NumDays + 2
    /\ table \in {NoTable, LegacyTable}
    /\ BuildIdle
    /\ BackfillIdle
    /\ SyncIdle
    /\ EnvIdle

NextSync ==
    \/ SyncLoad
    \/ SyncEnsure
    \/ SyncUpsertRow
    \/ SyncMergeFails
    \/ SyncCleanup
    \/ LedgerInsert
    \/ PriceInsert
    \/ ClockTick
SpecSync == InitSync /\ [][NextSync]_vars

NextSyncAbort ==
    \/ NextSync
    \/ SyncMergeFailsEarly
\* the sync runs whose row upsert can fail at any row
SpecSyncAbort == InitSync /\ [][NextSyncAbort]_vars

\* the coin lists a deployment is configured with: the default one and the
\* default one less its last coin
CoinConfigs == {COINS_DEFAULT, SubSeq(AllCoins, 1, NumCoins - 1)}

\* COINS_DEFAULT is edited between two runs: its last coin is dropped
Reconfigure ==
    /\ Resting /\ sync_runs < MaxRuns
    /\ cfg_coins = COINS_DEFAULT
    /\ \E c \in CoinConfigs \ {cfg_coins} : cfg_coins' = c
    /\ UNCHANGED <<ledger, prices, now, imp, px_op, buildvars, bfvars, syncvars>>

NextSyncConfig ==
    \/ NextSync
    \/ Reconfigure
\* the sync runs of a deployment whose coin list changes between runs
SpecSyncConfig == InitSync /\ [][NextSyncConfig]_vars

(***************************************************************************)
(* Ledger import: src/import_ledger_csv.py                                 *)
(*                                                                         *)
(* A CSV row is a record from header to text.  A date text is a tuple of   *)
(* tokens: <<"d1">> is day 1 alone, <<"d1", "T", "h1">> and                *)
(* <<"d1", " ", "h1">> are day 1 with a time (h0 the first tick of the     *)
(* day, h1 the second), anything else does not parse.  A missing cell and  *)
(* an empty one are both the empty text, the code treats them alike.       *)
(***************************************************************************)
\* _get_first_like on the headers of the model, where the search ends with
\* the exact match of the first alias: the cell, or the default
_get_first_like(row, key, default) == IF key \in DOMAIN row THEN row[key] ELSE default

\* float(x) on the texts of the model
float_of(x) ==
    CASE x = "100" -> Some(100) [] x = "2" -> Some(2) [] x = "1" -> Some(1)
      [] x = "-1" -> Some(-1) [] OTHER -> NaN
\* to_float(x, default): the number, the default on ValueError or TypeError
to_float(x, default) == IF float_of(x) = NaN THEN default ELSE Num(float_of(x))

abs(x) == IF x < 0 THEN 0 - x ELSE x

\* the text of a day and of a time of day (%Y-%m-%d and %H:%M:%S)
DayText(d) == "d" \o ToString(d)
HourText(h) == "h" \o ToString(h)
IsDayText(x) == \E d \in 0..(now \div 2 + 1) : DayText(d) = x
IsHourText(x) == \E h \in 0..1 : HourText(h) = x
DayOf(x) == CHOOSE d \in 0..(now \div 2 + 1) : DayText(d) = x
HourOf(x) == CHOOSE h \in 0..1 : HourText(h) = x

\* _parse_dt(value): the instant of the text, the current instant when the
\* text is empty or does not parse
_parse_dt(value) ==
    IF Len(value) = 1 /\ IsDayText(value[1]) THEN Midnight(DayOf(value[1]))
    ELSE IF /\ Len(value) = 3 /\ IsDayText(value[1]) /\ value[2] \in {"T", " "}
            /\ IsHourText(value[3])
         THEN Midnight(DayOf(value[1])) + HourOf(value[3])
         ELSE now
\* dt.strftime("%Y-%m-%d %H:%M:%S")
strftime(ts) == <<DayText(UtcDay(ts)), " ", HourText(ts % 2)>>

\* sha1_hex, taken free of collisions
sha1_hex(basis) == [sha1 |-> basis]

\* row_to_tx(row): the record main() hands to bulk_insert
row_to_tx(row) ==
    LET dt == _parse_dt(_get_first_like(row, "date", << >>))
        symbol == LOWER(_get_first_like(row, "currency", ""))
        amount == to_float(_get_first_like(row, "amount", ""), 0)
        op_type == _get_first_like(row, "type", "")
        qty == IF op_type \in {"out", "send", "withdrawal", "withdraw", "sell"}
               THEN 0 - abs(amount)
               ELSE IF op_type \in {"in", "receive", "deposit", "buy"}
                    THEN abs(amount) ELSE amount
        price_eur == to_float(_get_first_like(row, "price", ""), 0)
        fee_asset == to_float(_get_first_like(row, "fee", ""), 0)
        fee_eur == IF price_eur # 0 THEN fee_asset * price_eur ELSE 0
        note == _get_first_like(row, "type", "")
    IN  [date_utc |-> strftime(dt), symbol |-> symbol, qty |-> qty,
         price_eur |-> price_eur, fee_eur |-> fee_eur, exchange |-> "ledger",
         note |-> note,
         dedup_hash |-> sha1_hex(<<dt, symbol, qty, price_eur, fee_eur, note>>)]

\* the columns of the table transactions (create_table.py)
TransactionsColumns ==
    {"id", "date_utc", "symbol", "qty", "price_eur", "fee_eur", "exchange", "note",
     "dedup_hash", "created_at"}

\* bulk_insert(rows) on the ledger L: row["date"] and row["amount"] are read
\* from every row, then INSERT INTO transactions (date, amount) is executed
bulk_insert(L, rows) ==
    IF \E i \in 1..Len(rows) : ~({"date", "amount"} \subseteq DOMAIN rows[i])
    THEN [raised |-> "KeyError", ledger |-> L]
    ELSE IF rows = << >> THEN [raised |-> "no", ledger |-> L]
    ELSE IF ~({"date", "amount"} \subseteq TransactionsColumns)
         THEN [raised |-> "OperationalError", ledger |-> L]
         ELSE [raised |-> "no", ledger |-> L \o rows]

\* the data rows a CSV file of the model is made of
CsvRows ==
    <<[date |-> <<"d1">>, amount |-> "100"],
      [date |-> <<"d1", "T", "h1">>, amount |-> "2", type |-> "sell", currency |-> "BTC",
       price |-> "100", fee |-> "1"],
      [date |-> <<"?">>, amount |-> "abc"],
      [amount |-> "-1", type |-> "buy", currency |-> "eth", price |-> "100"]>>
CsvFiles ==
    UNION {[1..n -> {CsvRows[k] : k \in 1..Len(CsvRows)}] : n \in 0..MaxCsvRows}

\* main(): every row of the file goes through row_to_tx, the records go to
\* bulk_insert; the first import reads any file, a later one the same file
\* again or the file less its first row
ImportCsv ==
    /\ imp.runs < MaxImports
    /\ \E file \in CsvFiles :
        /\ imp.runs > 0 =>
              file \in {imp.file} \cup (IF imp.file = << >> THEN {} ELSE {Tail(imp.file)})
        /\ LET rows == [i \in 1..Len(file) |-> row_to_tx(file[i])]
               res == bulk_insert(ledger, rows)
           IN  /\ ledger' = res.ledger
               /\ imp' = [runs |-> imp.runs + 1, file |-> file, rows |-> rows,
                          raised |-> res.raised, added |-> Len(res.ledger) - Len(ledger),
                          again |-> (imp.runs > 0 /\ file = imp.file)]
    /\ UNCHANGED <<prices, now, cfg_coins, px_op, buildvars, bfvars, syncvars>>

InitImport ==
    /\ ledger \in SyncLedgers
    /\ prices = {}
    /\ now \in {2 * NumDays, 2 * NumDays + 1}
    /\ table = NoTable
    /\ BuildIdle
    /\ BackfillIdle
    /\ SyncIdle
    /\ EnvIdle

NextImport == ImportCsv
SpecImport == InitImport /\ [][NextImport]_vars

(***************************************************************************)
(* Properties of the reconstruction                                        *)
(***************************************************************************)
Built == out.status = "ok"
Coins == CoinSet(COINS_DEFAULT)
Cell(d, col) == Num(out.cell[d][col])
\* the ledger rows of coin c that fall on local day d
LedgerRows(c, d) ==
    {i \in 1..Len(ledger) : LOWER(ledger[i].symbol) = c /\ LocalDay(ledger[i].date_utc) = d}
NonNegativeLedger ==
    \A i \in 1..Len(ledger) : ledger[i].price_eur >= 0 /\ ledger[i].fee_eur >= 0

BoughtCumMonotone ==
    \A c \in Coins : \A d \in out.days :
        (d + 1) \in out.days =>
            Cell(d + 1, col_achete_cumul(c)) >= Cell(d, col_achete_cumul(c))

IsScenario == ledger = ScenarioLedger /\ prices = ScenarioPrices

BuysOnly(c, d) ==
    SumOver([i \in 1..Len(ledger) |->
                Some(ledger[i].qty * ledger[i].price_eur + ledger[i].fee_eur)],
            {i \in LedgerRows(c, d) : ledger[i].qty > 0})
FeesOfOthers(c, d) ==
    SumOver([i \in 1..Len(ledger) |-> Some(ledger[i].fee_eur)],
            {i \in LedgerRows(c, d) : ledger[i].qty <= 0})

\* C2 as stated: a sell adds 0 to the bought_eur of its day whatever its fee,
\* and the day-5 row of the scenario has qty_cum 1, bought_cum 201, value 150
\* and gain_loss -51.
C2_Original ==
    Built =>
        /\ \A c \in Coins : \A d \in out.days : Cell(d, col_achete(c)) = BuysOnly(c, d)
        /\ IsScenario =>
            /\ frames.qty_cum["btc"][5] = Some(1)
            /\ Cell(5, col_achete_cumul("btc")) = 201
            /\ Cell(5, col_valeur("btc")) = 150
            /\ Cell(5, col_gain_perte("btc")) = -51

\* C2 amended: a sell adds its fee (and nothing else) to the bought_eur of its
\* day: bought_eur of a day is the sum over the day's buys of quantity x unit
\* price + fee, plus the fees of the day's sells; the day-5 row of the scenario
\* has qty_cum 1, bought_cum 202, value 150 and gain_loss -52.
C2_SellAddsItsFee ==
    Built =>
        /\ \A c \in Coins : \A d \in out.days :
            Cell(d, col_achete(c)) = BuysOnly(c, d) + FeesOfOthers(c, d)
        /\ IsScenario =>
            /\ frames.qty_cum["btc"][5] = Some(1)
            /\ Cell(5, col_achete_cumul("btc")) = 202
            /\ Cell(5, col_valeur("btc")) = 150
            /\ Cell(5, col_gain_perte("btc")) = -52

\* the scenario has been reconstructed up to its day 5
C2_Witness == Built /\ IsScenario /\ 5 \in out.days /\ Cell(5, col_achete("btc")) = 1

HeldNothing(c, d) == frames.qty_cum[c][d] = Some(0)
PricePointDays(c) == {LocalDay(p.ts) : p \in {q \in prices : LOWER(q.symbol) = c}}

SumCells(d, cols) == SumOver(out.cell[d], cols)

\* C4: on every day, total value is the sum of the per-asset values, total
\* bought the sum of the per-asset bought_cum, and total gain/loss their
\* difference.
C4_TotalsConsistent ==
    Built =>
        \A d \in out.days :
            /\ Cell(d, col_total_valeur) = SumCells(d, {col_valeur(c) : c \in Coins})
            /\ Cell(d, col_total_achete) = SumCells(d, {col_achete_cumul(c) : c \in Coins})
            /\ Cell(d, col_total_gain_perte) = Cell(d, col_total_valeur) - Cell(d, col_total_achete)

\* two assets are held and valued on the same day
C4_Witness ==
    /\ Built
    /\ \E d \in out.days : \E c1 \in Coins : \E c2 \in Coins :
        /\ c1 # c2
        /\ Cell(d, col_valeur(c1)) > 0 /\ Cell(d, col_valeur(c2)) > 0
        /\ Cell(d, col_achete_cumul(c1)) > 0 /\ Cell(d, col_achete_cumul(c2)) > 0
        /\ Cell(d, col_total_valeur) # Cell(d, col_total_achete)

\* the ledger holds no row of coin c
NeverTransacted(c) == \A i \in 1..Len(ledger) : LOWER(ledger[i].symbol) # c
CoinColumns(c) ==
    {col_achete(c), col_valeur(c), col_gain_perte(c), col_achete_cumul(c),
     col_valeur_cumul(c), col_tail_achete(c), col_tail_valeur(c)}

DayPrice(c, d) == last_per_day(_load_prices, c, d)
\* the latest day of D before d that has an observation of coin c
LatestBefore(c, d, D) == Max({e \in D : e < d /\ e \in PricePointDays(c)})
\* on the days D, the price of coin c is the day's own or the latest earlier one
ForwardFilled(c, D) ==
    \A d \in out.days :
        /\ d \in PricePointDays(c) => frames.price[c][d] = DayPrice(c, d)
        /\ (d \notin PricePointDays(c) /\ \E e \in D : e < d /\ e \in PricePointDays(c))
                => frames.price[c][d] = DayPrice(c, LatestBefore(c, d, D))
        /\ out.cell[d][col_valeur(c)]
                = fillna(Mul(frames.qty_cum[c][d], fillna(frames.price[c][d], 0)), 0)
IsGapScenario == ledger = GapLedger /\ prices = GapPrices
GapScenarioPrices ==
    /\ \A d \in 1..10 : frames.price["btc"][d] = Some(100)
    /\ frames.price["btc"][11] = Some(300)
    /\ Cell(10, col_valeur("btc")) = 300 /\ Cell(11, col_valeur("btc")) = 900
AllLocalDays == 0..(LocalDay(now) + 1)

PointsOfDay(c, d) == {p \in prices : LOWER(p.symbol) = c /\ LocalDay(p.ts) = d}
LatestPoint(c, d) == CHOOSE p \in PointsOfDay(c, d) : \A q \in PointsOfDay(c, d) : q.ts <= p.ts

\* C24: when a coin has several price points on one local day of the grid,
\* the price resolved for that coin and day is the price of the point with
\* the latest timestamp of the day.
C24_LastPointOfDayWins ==
    Built =>
        \A c \in Coins : \A d \in out.days :
            Cardinality(PointsOfDay(c, d)) >= 2 =>
                frames.price[c][d] = Some(LatestPoint(c, d).price_eur)

\* a held coin has two points of different prices on one day of the grid
C24_Witness ==
    /\ Built
    /\ \E c \in Coins : \E d \in out.days :
        /\ \E p, q \in PointsOfDay(c, d) : p.ts < q.ts /\ p.price_eur # q.price_eur
        /\ frames.price[c][d] = Some(LatestPoint(c, d).price_eur)
        /\ frames.qty_cum[c][d] # Some(0)
        /\ Cell(d, col_valeur(c)) = Num(frames.qty_cum[c][d]) * LatestPoint(c, d).price_eur

\* the first day on which coin c has an observation
FirstPriceDay(c) == Min(PricePointDays(c))
\* coin c is held on grid day d, which precedes its first observation
HeldBeforeFirstPrice(c, d) ==
    /\ frames.qty_cum[c][d] # Some(0)
    /\ PricePointDays(c) # {}
    /\ d < FirstPriceDay(c)

FirstTxDay == Min({LocalDay(ledger[i].date_utc) : i \in 1..Len(ledger)})
Today == LocalDay(now)
\* one row per day of the contiguous grid from the earliest transaction to today
GridFromFirstTxToToday ==
    /\ out.days = {d \in AllLocalDays : FirstTxDay <= d /\ d <= Today}
    /\ DOMAIN out.cell = out.days
    /\ FirstTxDay \in out.days /\ Today \in out.days
    /\ \A d \in out.days : d = FirstTxDay \/ (d - 1) \in out.days

\* C26 as stated: the table has one row per day of the contiguous grid from
\* the local day of the earliest transaction to today, for any ledger.
C26_Original == Built => GridFromFirstTxToToday

\* C26 amended: when the earliest transaction is not dated after today, the
\* table has one row per day of the contiguous grid from the local day of
\* the earliest transaction to today; when it is, the table has no row.
C26_GridContiguous ==
    Built =>
        /\ FirstTxDay <= Today => GridFromFirstTxToToday
        /\ FirstTxDay > Today => out.days = {} /\ out.cell = << >>

\* a grid of several days whose first day is the local day, not the UTC day,
\* of the earliest transaction
C26_Witness ==
    /\ Built
    /\ Cardinality(out.days) >= 2
    /\ \E i \in 1..Len(ledger) :
        /\ LocalDay(ledger[i].date_utc) = FirstTxDay
        /\ UtcDay(ledger[i].date_utc) # FirstTxDay
    /\ \A i \in 1..Len(ledger) : UtcDay(ledger[i].date_utc) < FirstTxDay


(***************************************************************************)
(* Properties of the backfill run                                          *)
(***************************************************************************)
Started == bf_pc # "idle" /\ bf_syms # << >>
Finished == bf_pc = "done" /\ bf_syms # << >>
SymIdx == 1..Len(bf_syms)
LogIdx == DOMAIN bf_log
IsEv(k, ev) == bf_log[k].ev = ev
Requests(s) == {k \in LogIdx : IsEv(k, "request") /\ bf_log[k].sym = s}
Writes(s) == {k \in LogIdx : IsEv(k, "upsert") /\ bf_log[k].sym = s /\ bf_log[k].ok}
Visited(s) == \E k \in LogIdx : IsEv(k, "visit") /\ bf_log[k].sym = s
QueryOk(s) == \E k \in LogIdx : IsEv(k, "query") /\ bf_log[k].sym = s /\ bf_log[k].ok
QueryFailed(s) == \E k \in LogIdx : IsEv(k, "query") /\ bf_log[k].sym = s /\ ~bf_log[k].ok
FailedRequest(s) ==
    \E k \in LogIdx : IsEv(k, "response") /\ bf_log[k].sym = s /\ bf_log[k].status # "ok"
HasPoint(P, s, d) == \E p \in P : p.symbol = s /\ UtcDay(p.ts) = d
Complete(P, s) == \A d \in AllDays : HasPoint(P, s, d)

EveryRequestAnswered ==
    \A k \in LogIdx : IsEv(k, "response") => bf_log[k].status = "ok" /\ bf_log[k].full
EveryUpsertDone == \A k \in LogIdx : IsEv(k, "upsert") => bf_log[k].ok
LedgerSymbols == {LOWER(ledger[i].symbol) : i \in 1..Len(ledger)}

AfterFailure ==
    \A i \in SymIdx :
        FailedRequest(bf_syms[i]) =>
            /\ bf_pc \in {"loop", "done"}
            /\ bf_i > i
            /\ Cardinality(Requests(bf_syms[i])) = 1
            /\ bf_pc = "done" => \A j \in SymIdx : Visited(bf_syms[j])
SomeFailure == Started /\ \E i \in SymIdx : FailedRequest(bf_syms[i])

\* C8: a failed remote request for one asset (429 or any other error) does
\* not stop the run: the loop is past the asset, the asset is requested once,
\* the run reaches its end, and at the end every asset has been processed.
C8_FailureDoesNotAbort ==
    /\ [](Started => AfterFailure)
    /\ (SomeFailure ~> bf_pc = "done")

\* a finished run where the request of one asset failed and a later asset
\* was requested, fetched and written
C8_Witness ==
    /\ Finished
    /\ \E k1, k2, k3 \in LogIdx :
        /\ k1 < k2 /\ k2 < k3
        /\ IsEv(k1, "response") /\ bf_log[k1].status # "ok"
        /\ IsEv(k2, "request") /\ bf_log[k2].sym # bf_log[k1].sym
        /\ IsEv(k3, "upsert") /\ bf_log[k3].ok

\* C9: no remote request is issued without a pause since the previous
\* request, and the pause after a 429 answer is the longer backoff.
C9_PauseBeforeEveryRequest ==
    /\ \A k1, k2 \in LogIdx :
        (k1 < k2 /\ IsEv(k1, "request") /\ IsEv(k2, "request")) =>
            \E k \in (k1 + 1)..(k2 - 1) : IsEv(k, "sleep")
    /\ \A k \in LogIdx :
        (IsEv(k, "response") /\ bf_log[k].status = "429") =>
            (k + 1 \in LogIdx /\ IsEv(k + 1, "sleep") /\ bf_log[k + 1].secs = BACKOFF_429)

\* the days of the range on which the store held a point of s when the run
\* started (a step writes points of its own symbol only)
Present0(s) == {d \in AllDays : HasPoint(bf_prices0, s, d)}
MissingDays0(s) == AllDays \ Present0(s)
\* the missing-day set the step of s computed
ComputedMissing(s) == IF QueryFailed(s) THEN AllDays ELSE MissingDays0(s)
CoversMissing(k, M) ==
    bf_log[k].from = Midnight(Min(M)) /\ bf_log[k].to = Midnight(Max(M) + 1)
\* a day of the range held by the store lies between two missing days
InnerPresentDay(s) ==
    \E d \in Present0(s) : Min(MissingDays0(s)) < d /\ d < Max(MissingDays0(s))

PointsOn(P, s, d) == {p \in P : p.symbol = s /\ UtcDay(p.ts) = d}
WritesInComputedMissing ==
    \A i \in SymIdx :
        \A k \in Writes(bf_syms[i]) : UtcDay(bf_log[k].ts) \in ComputedMissing(bf_syms[i])
PresentDaysUntouched(s) ==
    \A d \in Present0(s) : PointsOn(prices, s, d) = PointsOn(bf_prices0, s, d)

SecondRun == bf_log # << >> /\ bf_log[1].ev = "run"
FirstRun == bf_log[1].first
FirstRunAnswered == FirstRun.answered
FirstRunUpserted == FirstRun.upserted
NoQueryFailed == \A k \in LogIdx : IsEv(k, "query") => bf_log[k].ok
NoRequest == \A k \in LogIdx : ~IsEv(k, "request")

WritesBefore(k) == {j \in LogIdx : j < k /\ IsEv(j, "upsert") /\ bf_log[j].ok}
StoredAsWritten(j) ==
    [ts |-> bf_log[j].ts, symbol |-> bf_log[j].sym, price_eur |-> RemotePriceAt(bf_log[j].ts)]
        \in prices

\* C22: a step that fails for one asset does not undo earlier work: the
\* points upserted for the assets processed before it in the same run stay
\* in the store with their values.
C22_FailureKeepsEarlierWrites ==
    Started =>
        \A k \in LogIdx :
            (IsEv(k, "response") /\ bf_log[k].status # "ok") =>
                \A j \in WritesBefore(k) : StoredAsWritten(j)

\* a finished run wrote two points for one asset, then failed on another
C22_Witness ==
    /\ Finished
    /\ \E k \in LogIdx :
        /\ IsEv(k, "response") /\ bf_log[k].status # "ok"
        /\ Cardinality(WritesBefore(k)) >= 2
        /\ \A j \in WritesBefore(k) : bf_log[j].sym # bf_log[k].sym /\ StoredAsWritten(j)
        /\ prices # bf_prices0

\* the range of the run: first transaction day to today, in UTC days
RangeDays == UtcDay(bf_range[1])..UtcDay(bf_range[2])
FullRangeRequest(k) ==
    /\ IsEv(k, "request")
    /\ bf_log[k].from = Midnight(UtcDay(bf_range[1]))
    /\ bf_log[k].to = Midnight(UtcDay(bf_range[2]) + 1)
\* the failed existing-days query of an asset is followed by one request over
\* the full range, and the loop goes on
FailedQueryRefetchesAll(k) ==
    /\ (k + 1) \in LogIdx /\ FullRangeRequest(k + 1) /\ bf_log[k + 1].sym = bf_log[k].sym
    /\ Cardinality(Requests(bf_log[k].sym)) = 1
    /\ bf_pc \in {"loop", "done"}
    /\ bf_pc = "done" => \A j \in SymIdx : Visited(bf_syms[j])
IsFailedQuery(k) == IsEv(k, "query") /\ ~bf_log[k].ok

\* C29 as stated: when the existing-days query of an asset fails, one
\* request for the full range is issued for it, whatever the range.
C29_Original == Started => \A k \in LogIdx : IsFailedQuery(k) => FailedQueryRefetchesAll(k)

\* C29 amended: when the existing-days query of an asset fails and the range
\* holds a day (the first transaction is not dated after today), every day
\* of the range is missing for the asset and one request for the full range
\* is issued; the asset is not skipped and the run is not aborted.
C29_FailedQueryRefetchesAll ==
    Started =>
        \A k \in LogIdx :
            (IsFailedQuery(k) /\ RangeDays # {}) => FailedQueryRefetchesAll(k)

\* a finished run whose query failed for an asset that had every day stored
C29_Witness ==
    /\ Finished
    /\ \E k \in LogIdx :
        /\ IsFailedQuery(k) /\ FailedQueryRefetchesAll(k)
        /\ Cardinality(RangeDays) >= 2
        /\ Complete(bf_prices0, bf_log[k].sym)

\* a symbol of the run that SYMBOL_TO_ID does not know
Unmapped(s) == s \notin DOMAIN SYMBOL_TO_ID
EventsOf(s) == {k \in LogIdx : ~IsEv(k, "sleep") /\ bf_log[k].sym = s}
\* all the run did for symbol s is to visit it, and it went on at once
OnlyVisited(s) ==
    \A k \in EventsOf(s) :
        /\ IsEv(k, "visit")
        /\ (k + 1) \in LogIdx => (IsEv(k + 1, "visit") /\ bf_log[k + 1].sym # s)

\* C30: a ledger symbol without an identifier in SYMBOL_TO_ID is skipped: no
\* request, no write to the store and no pause for it, and the run goes on
\* with the next symbol.
C30_UnmappedSymbolSkipped ==
    Started =>
        /\ \A i \in SymIdx :
            Unmapped(bf_syms[i]) =>
                /\ OnlyVisited(bf_syms[i])
                /\ \A p \in prices \ bf_prices0 : p.symbol # bf_syms[i]
                /\ bf_i > i => Cardinality(EventsOf(bf_syms[i])) = 1
        /\ bf_pc = "done" => \A j \in SymIdx : Visited(bf_syms[j])

\* a finished run that skipped an unmapped symbol between two symbols it
\* requested
C30_Witness ==
    /\ Finished
    /\ \E i, j, l \in SymIdx :
        /\ i < j /\ j < l
        /\ Unmapped(bf_syms[j]) /\ OnlyVisited(bf_syms[j])
        /\ Requests(bf_syms[i]) # {} /\ Requests(bf_syms[l]) # {}

(***************************************************************************)
(* Properties of the price store upserts                                   *)
(***************************************************************************)
UpsertCalled == px_op.n > 0
\* the stored point of a key, as a set: empty when the key is not stored
Stored(P, symbol, ts) == {p \in P : p.symbol = symbol /\ p.ts = ts}
\* the rows of the last call find their key stored, or not
OnExistingKey == {r \in px_op.applied : Stored(px_op.before, px_op.symbol, r.ts) # {}}
OnNewKey == px_op.applied \ OnExistingKey
Touched(p) == p.symbol = px_op.symbol /\ \E r \in px_op.applied : r.ts = p.ts

\* C21: after any sequence of upserts the store holds at most one point per
\* (timestamp, symbol) key; an upsert on an existing key replaces that point's
\* price with the new one, an upsert on a new key inserts one point, and no
\* other point is changed.
C21_UpsertLastWriteWins ==
    /\ UK_price_snapshot_ts_symbol(prices)
    /\ UpsertCalled =>
        /\ \A r \in px_op.applied :
              Stored(prices, px_op.symbol, r.ts)
                  = {[ts |-> r.ts, symbol |-> px_op.symbol, price_eur |-> r.price_eur]}
        /\ \A p \in px_op.before : ~Touched(p) => p \in prices
        /\ \A p \in prices : ~Touched(p) => p \in px_op.before
        /\ Cardinality(prices) = Cardinality(px_op.before) + Cardinality(OnNewKey)

\* one call has replaced the price of a stored point and inserted another
\* point next to a point of another symbol that it left alone
C21_Witness ==
    /\ UpsertCalled /\ px_op.call = "_upsert_many"
    /\ \E p \in px_op.before : p.ts = now /\ p.price_eur \in Quotes(now) \ {PriceAt(now)}
    /\ \E r \in OnExistingKey :
        \E p \in Stored(px_op.before, px_op.symbol, r.ts) : p.price_eur # r.price_eur
    /\ OnNewKey # {}
    /\ \E p \in px_op.before : p.symbol # px_op.symbol /\ p \in prices


(***************************************************************************)
(* Properties of the sync runs                                             *)
(***************************************************************************)
\* the running run and the run before it both completed, on the same ledger,
\* the same price store and the same day
RanTwice == sync_pc = "done" /\ sync_last.valid /\ sync_last.snap = sync_snap

Dates(rows) == {rows[i].date : i \in DOMAIN rows}
RowsOn(d) == {i \in DOMAIN table.rows : table.rows[i].date = d}
\* upsert_rows is running or has run on a DataFrame
InUpsert == out.status = "ok" /\ sync_pc \in {"upsert", "done", "failed"}
\* the days whose MERGE is done
Upserted == IF InUpsert THEN {DayAt(out, j) : j \in 1..(sync_i - 1)} ELSE {}
ValueColumns == {NormOf[o] : o \in value_cols(Cols)}

\* C10: the table never holds two rows of one day; the MERGE of a day that
\* has a row sets its value columns to the reconstructed values and leaves
\* its other columns, the MERGE of a day without a row adds one row with
\* every value column set.
C10_OneRowPerDay ==
    /\ \A i, j \in DOMAIN table.rows :
        table.rows[i].date = table.rows[j].date => i = j
    /\ \A d \in Upserted :
        /\ Cardinality(RowsOn(d)) = 1
        /\ \A i \in RowsOn(d) :
            /\ \A o \in value_cols(Cols) :
                table.rows[i].cell[NormOf[o]] = fillna(out.cell[d][o], 0)
            /\ \A k \in DOMAIN sync_rows0 :
                sync_rows0[k].date = d =>
                    /\ i = k
                    /\ \A c \in DOMAIN sync_rows0[k].cell \ ValueColumns :
                        table.rows[i].cell[c] = sync_rows0[k].cell[c]
    /\ InUpsert =>
        Len(table.rows) = Len(sync_rows0) + Cardinality(Upserted \ Dates(sync_rows0))

\* a run that has updated the row of a day the table held with other values
\* and inserted the row of a day it did not hold
C10_Witness ==
    /\ sync_pc = "done" /\ out.status = "ok"
    /\ \E k \in DOMAIN sync_rows0 :
        /\ sync_rows0[k].date \in Upserted
        /\ sync_rows0[k] # table.rows[k]
    /\ Upserted \ Dates(sync_rows0) # {}
    /\ sync_runs = 2

NumericTypes == {"DECIMAL(20,2)", "BIGINT"}
\* no numeric column of any row of the table holds NULL
NoNullNumeric(T) ==
    \A i \in DOMAIN T.rows : \A c \in DOMAIN T.columns \ {"date"} :
        T.columns[c] \in NumericTypes => T.rows[i].cell[c] # NULL

\* C11: after every completed sync run (the upsert of every row, then a null
\* sweep none of whose statements failed), no numeric column of any row of
\* the table holds NULL, the coin list changing between runs or not.
C11_NoNullAfterRun ==
    (sync_pc = "done" /\ ~sync_sweep_failed) => NoNullNumeric(table)

\* ensure_table_and_view of the running (or last) run has been executed
AfterEnsure ==
    \/ sync_pc \in {"upsert", "done"}
    \/ sync_pc = "failed" /\ out.status = "ok"
\* original_cols of the running (or last) run
RunCols == original_cols(sync_snap[4])
ExpectedNormCols == {"date"} \cup {NormOf[o] : o \in value_cols(RunCols)}
ColumnsBefore == DOMAIN sync_last.table0.columns
ColumnsNow == DOMAIN table.columns

\* C12: schema evolution is additive only.  Once a run has ensured the
\* schema, every column the table had when the run started is still there,
\* except "index", which is missing only if the run does not expect it; every
\* column the run requires is there; and no other step of a run, and nothing
\* between runs, changes the columns of the table.
C12_SchemaAdditive ==
    /\ [](AfterEnsure =>
            /\ (ColumnsBefore \ {"index"}) \subseteq ColumnsNow
            /\ ("index" \in ColumnsBefore /\ "index" \notin ColumnsNow)
                    => "index" \notin ExpectedNormCols
            /\ ExpectedNormCols \subseteq ColumnsNow)
    /\ [][sync_pc # "ensure" => DOMAIN table'.columns = DOMAIN table.columns]_vars

\* a completed run on a shorter coin list: the table kept columns the run
\* does not expect, and got the columns of the run
C12_Witness ==
    /\ sync_pc = "done"
    /\ \E c \in ColumnsBefore \ ExpectedNormCols : c # "index" /\ c \in ColumnsNow
    /\ ExpectedNormCols \subseteq ColumnsNow

\* the running (or last) run read an empty transactions table
RanOnEmptyLedger == sync_pc # "idle" /\ sync_snap[1] = << >>

\* C13: with zero transactions in the ledger, the reconstruction raises and
\* returns no table, and the sync run that called it stops there: the
\* persisted table is as it was when the run started, columns and rows.
C13_EmptyLedgerFails ==
    RanOnEmptyLedger =>
        /\ frames.raised
        /\ out.status = "raised" /\ "cell" \notin DOMAIN out
        /\ sync_pc = "failed"
        /\ table = sync_last.table0

\* a run on an empty ledger, over a table whose stray column an ensured run
\* would have dropped
C13_Witness ==
    /\ RanOnEmptyLedger /\ sync_pc = "failed"
    /\ table.exists /\ "index" \in DOMAIN table.columns

\* a run has completed and the stores are as the run read them
RunDoneOnCurrentStores ==
    /\ sync_pc = "done"
    /\ sync_snap = <<ledger, prices, LocalDay(now), cfg_coins>>
\* the reconstruction of the stores as they are now
Reconstruction == build_saisir(cfg_coins, _build_frames(cfg_coins))
\* the rows of day d hold, in every value column, what the reconstruction R
\* holds for the day
RowsAsReconstructed(R, d) ==
    /\ RowsOn(d) # {}
    /\ \A i \in RowsOn(d) : \A o \in value_cols(Cols) :
        table.rows[i].cell[NormOf[o]] = R.cell[d][o]

\* C23: whatever the table held before, after a completed run during which
\* the stores did not change, the value columns of the row of every day of
\* the grid equal the reconstruction of the stores as the run read them.
C23_LaterRunSelfCorrects ==
    RunDoneOnCurrentStores =>
        LET R == Reconstruction
        IN  R.status = "ok" /\ \A d \in R.days : RowsAsReconstructed(R, d)

\* a second run, after the stores changed, has rewritten a row that held
\* other values
C23_Witness ==
    /\ RunDoneOnCurrentStores /\ sync_last.valid /\ sync_last.snap # sync_snap
    /\ LET R == Reconstruction
       IN  \E d \in R.days :
            /\ RowsAsReconstructed(R, d)
            /\ \E k \in DOMAIN sync_last.table0.rows : \E o \in value_cols(Cols) :
                /\ sync_last.table0.rows[k].date = d
                /\ sync_last.table0.rows[k].cell[NormOf[o]] # R.cell[d][o]

\* a run has started; the days of its reconstructed table
RunStarted == sync_runs > 0
RunDays == IF out.status = "ok" THEN out.days ELSE {}
\* the value is kept, or was NULL and is now 0
KeptOrSwept(old, new) == new = old \/ (old = NULL /\ new = Some(0))
\* the row r of the table at the start of the run is still there; when its
\* day is not a day of the run, its cells in the columns C are kept or swept
RowSurvives(r, C) ==
    \E i \in DOMAIN table.rows :
        /\ table.rows[i].date = r.date
        /\ r.date \notin RunDays =>
            \A c \in DOMAIN r.cell \cap C :
                c \in DOMAIN table.rows[i].cell /\ KeptOrSwept(r.cell[c], table.rows[i].cell[c])
RowsBefore == {sync_last.table0.rows[k] : k \in DOMAIN sync_last.table0.rows}

\* C27 as stated: a run deletes no row, and the rows of days outside its
\* reconstructed table keep their value in every column they had, NULLs
\* swept to 0 apart.
C27_Original ==
    RunStarted => \A r \in RowsBefore : RowSurvives(r, DOMAIN r.cell)

\* C27 amended: a run deletes no row, and the rows of days outside its
\* reconstructed table keep their value in every column the table still
\* has (a stray "index" column is dropped with its values), NULLs swept to 0
\* apart.
C27_RunDeletesNoRow ==
    RunStarted => \A r \in RowsBefore : RowSurvives(r, DOMAIN table.columns)

\* a completed run left the row of a day outside its grid, one of its NULLs
\* swept to 0
C27_Witness ==
    /\ RunStarted /\ sync_pc = "done"
    /\ \E r \in RowsBefore :
        /\ r.date \notin RunDays /\ RunDays # {}
        /\ RowSurvives(r, DOMAIN table.columns)
        /\ \E i \in DOMAIN table.rows : \E c \in DOMAIN r.cell \cap DOMAIN table.columns :
            table.rows[i].date = r.date /\ r.cell[c] = NULL /\ table.rows[i].cell[c] = Some(0)

\* the row upsert of the run raised
MergeFailed == sync_pc = "failed" /\ out.status = "ok"
NotUpserted(rows) == {rows[k] : k \in {j \in DOMAIN rows : rows[j].date \notin Upserted}}

\* C28: when the MERGE of a row fails the run stops there: the failing row
\* and the rows after it are not upserted and the null sweep is not run (the
\* rows of every day not upserted are as they were before the upsert, NULLs
\* included), and the table stays as it is until another run starts.
C28_MergeFailureStopsRun ==
    /\ [](MergeFailed =>
            /\ NotUpserted(table.rows) = NotUpserted(sync_rows0)
            /\ \A d \in out.days \ Upserted : \A i \in RowsOn(d) :
                  \E k \in DOMAIN sync_rows0 : sync_rows0[k] = table.rows[i]
            /\ ~sync_sweep_failed)
    /\ [][MergeFailed => (table' = table /\ sync_pc' \in {"failed", "ensure"})]_vars

\* the MERGE of a row failed after a row was upserted and before the last
\* row, in a table that holds a NULL the sweep would have rewritten
C28_Witness ==
    /\ MergeFailed
    /\ sync_i > 1 /\ sync_i < Cardinality(out.days)
    /\ HoldsNull(table) \cap ValueColumns # {}

(***************************************************************************)
(* Properties of the ledger import                                         *)
(***************************************************************************)
Imported == imp.runs > 0

\* C16: row_to_tx keeps the date and the amount of the row: for a row with
\* the fields date and amount, the record has a field date equal to the date
\* of the row and a field amount equal to the number the amount reads as.
C16_RowToTxKeepsDateAndAmount ==
    Imported =>
        \A i \in 1..Len(imp.file) :
            ({"date", "amount"} \subseteq DOMAIN imp.file[i]) =>
                /\ {"date", "amount"} \subseteq DOMAIN imp.rows[i]
                /\ imp.rows[i].date = imp.file[i].date
                /\ Some(imp.rows[i].amount) = float_of(imp.file[i].amount)

\* C17: the import is tolerant to re-imports: a second import of the same
\* file goes through and adds no transaction to the ledger.
C17_ReimportAddsNothing ==
    (Imported /\ imp.again) => (imp.raised = "no" /\ imp.added = 0)

====
